---- MODULE Spec2Model ----
(***************************************************************************)
(* State-machine model of the credential encryption subsystem of the       *)
(* Restful Booker API automation framework:                                *)
(*   - EncryptionService            (Argon2id + AES-GCM, JSON envelope)    *)
(*   - EnvironmentEncryptionManager (in-place rewrite of .env files)       *)
(*   - EnvironmentSecretFileManager (secret key storage in the base file)  *)
(*   - EnvironmentEncryptionCoordinator (the two entry points)             *)
(*                                                                         *)
(* Strings are sequences of code units.  A code unit is a record: an       *)
(* ordinary character [ch |-> c] or, for the members of a JSON object,     *)
(* one unit [fld |-> name, val |-> base64 text] standing for the text      *)
(* "name":"value" of that member.  Byte strings are sequences of blocks,   *)
(* each with its width in bytes.  Argon2id, AES-GCM and the random source  *)
(* are the ideal primitives: a derived key is determined by exactly its    *)
(* inputs, a ciphertext opens only under the key and IV that sealed it,    *)
(* and every draw of random bytes is fresh.                                *)
(***************************************************************************)
EXTENDS Integers, Sequences, FiniteSets, TLC

VARIABLES
    entropy,    \* number of draws made from crypto.randomBytes so far
    svc,        \* one EncryptionService encrypt / decrypt exchange
    dm,         \* one EncryptionService.decryptMultipleKeys call
    file,       \* content of the environment file (one string)
    selectors,  \* the envVariables argument of the runs on the file
    run,        \* per invocation of encryptAndUpdateEnvironmentVariables
    runsDone,   \* history: what each finished invocation saw and did
    baseFile,   \* the base environment file: whether it exists, its content
    store,      \* per invocation of generateAndStoreSecretKey
    storesDone, \* history: what each finished invocation saw and did
    gen,        \* the last call of a SecureKeyGenerator generator
    handler     \* ErrorHandler: its cache of logged errors, what it logged

vars ==
    <<entropy, svc, dm, file, selectors, run, runsDone, baseFile, store,
      storesDone, gen, handler>>

(***************************************************************************)
(* Bounds of the model                                                     *)
(***************************************************************************)
MaxPlainLen == 2      \* longest plaintext handed to encrypt directly
MaxLines == 3         \* most lines of an initial environment file
MaxRuns == 2          \* invocations of the rewrite on one file
MaxBatch == 3         \* most entries of a decryptMultipleKeys call
MaxStores == 3        \* generateAndStoreSecretKey calls on one base file
MaxBaseLines == 2     \* most lines of an initial base secrets file
MaxSelectors == 2     \* most selectors of a call whose resolution is examined
MaxResolveLines == 2  \* most lines of a file whose selectors are resolved
MaxByValueLines == 2  \* most lines of a file encrypted by value
MaxGenLength == 2     \* largest length asked of a generator; the least is
                      \* its negative
MaxDraws == 4         \* draws of random bytes made by generator calls
MaxCaptures == 3      \* steps of calls made of ErrorHandler.captureError
MaxProbeLines == 2    \* most lines of a file whose values are probed
MaxDupLines == 3      \* most lines of a file that assigns a key repeatedly

(***************************************************************************)
(* Program constants                                                       *)
(***************************************************************************)
IV == 16
WEB_CRYPTO_IV == 12
SALT == 32
SECRET_KEY == 32
MEMORY_COST == 262144
TIME_COST == 4
PARALLELISM == 3
\* AES-GCM's authentication tag, appended to the ciphertext by
\* crypto.subtle.encrypt when no tagLength is given
GcmTagBytes == 16

(***************************************************************************)
(* Strings                                                                 *)
(***************************************************************************)
Ch(c) == [ch |-> c]
Fld(n, v) == [fld |-> n, val |-> v]
IsCh(u) == DOMAIN u = {"ch"}
IsFld(u) == DOMAIN u = {"fld", "val"}

\* the string spelled by a tuple of one-character strings
Str(cs) == [i \in 1..Len(cs) |-> Ch(cs[i])]

EmptyText == << >>

\* String.prototype.trim's white space: space, tab, CR, LF and U+FEFF
IsWhite(u) == IsCh(u) /\ u.ch \in {" ", "\t", "\r", "\n", "BOM"}

RECURSIVE TrimStart(_)
TrimStart(s) ==
    IF s = << >> THEN << >>
    ELSE IF IsWhite(Head(s)) THEN TrimStart(Tail(s)) ELSE s

RECURSIVE TrimEnd(_)
TrimEnd(s) ==
    IF s = << >> THEN << >>
    ELSE IF IsWhite(s[Len(s)]) THEN TrimEnd(SubSeq(s, 1, Len(s) - 1)) ELSE s

Trim(s) == TrimEnd(TrimStart(s))

StartsWith(s, p) == Len(p) <= Len(s) /\ SubSeq(s, 1, Len(p)) = p
EndsWith(s, p) ==
    Len(p) <= Len(s) /\ SubSeq(s, Len(s) - Len(p) + 1, Len(s)) = p
Includes(s, u) == \E i \in 1..Len(s) : s[i] = u

\* index of the first occurrence of unit u in s, 0 when there is none
IndexOf(s, u) ==
    IF Includes(s, u)
    THEN CHOOSE i \in 1..Len(s) : s[i] = u /\ \A j \in 1..(i - 1) : s[j] # u
    ELSE 0

\* String.prototype.split(sep) for a one-unit separator
RECURSIVE Split(_, _)
Split(s, sep) ==
    LET i == IndexOf(s, sep) IN
    IF i = 0 THEN << s >>
    ELSE << SubSeq(s, 1, i - 1) >> \o Split(SubSeq(s, i + 1, Len(s)), sep)

\* Array.prototype.join(sep)
RECURSIVE Join(_, _)
Join(parts, sep) ==
    IF parts = << >> THEN << >>
    ELSE IF Len(parts) = 1 THEN parts[1]
    ELSE parts[1] \o << sep >> \o Join(Tail(parts), sep)

NL == Ch("\n")
EQ == Ch("=")

(***************************************************************************)
(* Results of operations that may throw                                    *)
(***************************************************************************)
Ok(v) == [ok |-> TRUE, value |-> v]
Err(e) == [ok |-> FALSE, error |-> e]

(***************************************************************************)
(* Byte strings                                                            *)
(*   [b |-> n, w |-> 1]            one byte of value n                     *)
(*   [blk |-> u, w |-> k]          the k bytes of the UTF-8 text of unit u *)
(*   [rnd |-> i, w |-> k, x |-> c] the k bytes of the i-th random draw     *)
(*   [argon2id |-> in, w |-> k]    a k byte Argon2id hash of `in`          *)
(*   [gcm |-> in, w |-> k, x |-> c] an AES-GCM ciphertext with its tag     *)
(* x = 0 is the block as produced, x # 0 the block with a byte changed.    *)
(***************************************************************************)
B(n) == [b |-> n, w |-> 1]

RECURSIVE ByteLen(_)
ByteLen(bs) == IF bs = << >> THEN 0 ELSE Head(bs).w + ByteLen(Tail(bs))

ByteVal(x) == IF "b" \in DOMAIN x THEN x.b ELSE -1

\* the bytes bs with (at least) one byte changed
Corrupt(bs) ==
    IF bs # << >> /\ "x" \in DOMAIN bs[1]
    THEN [bs EXCEPT ![1] = [@ EXCEPT !.x = 1]]
    ELSE bs \o << B(0) >>

(***************************************************************************)
(* Base64 (Buffer.toString('base64'), Buffer.from(s, 'base64')).  When the *)
(* byte length is not a multiple of 3 the last symbol carries `slack` bits *)
(* that encode no byte: the encoder writes 0, the decoder ignores them.    *)
(***************************************************************************)
Base64Encode(bs) == [b64 |-> bs, slack |-> 0]
Base64Decode(t) == t.b64
Base64Len(t) == 4 * ((ByteLen(t.b64) + 2) \div 3)
EmptyString == [b64 |-> << >>, slack |-> 0]
Undefined == [undefined |-> TRUE]
Truthy(v) == v # Undefined /\ v # EmptyString

(***************************************************************************)
(* UTF-8 (TextEncoder.encode, TextDecoder.decode)                          *)
(***************************************************************************)
AsciiChars == {"A", "B", "C", "=", "1", "2", "x", "a", " ", "#", "{", "}",
               ",", "\n", "\r", "\t", "n", "u", "l"}

CodePoint(c) ==
    CASE c = "A" -> 65 [] c = "B" -> 66 [] c = "C" -> 67 [] c = "=" -> 61
      [] c = "1" -> 49 [] c = "2" -> 50 [] c = "x" -> 120 [] c = "a" -> 97
      [] c = " " -> 32 [] c = "#" -> 35 [] c = "{" -> 123 [] c = "}" -> 125
      [] c = "," -> 44 [] c = "\n" -> 10 [] c = "\r" -> 13 [] c = "\t" -> 9
      [] c = "n" -> 110 [] c = "u" -> 117 [] c = "l" -> 108

CharOf(n) == CHOOSE c \in AsciiChars : CodePoint(c) = n

NameLen(n) ==
    CASE n = "salt" -> 4 [] n = "iv" -> 2 [] n = "cipherText" -> 10
      [] OTHER -> 1

\* "BOM" is U+FEFF, "HS" an unpaired surrogate, "FFFD" U+FFFD.  The encoder
\* writes U+FFFD for an unpaired surrogate.
Utf8Unit(u) ==
    IF IsFld(u)
    THEN << [blk |-> u, w |-> NameLen(u.fld) + 5 + Base64Len(u.val)] >>
    ELSE CASE u.ch = "BOM" -> << B(239), B(187), B(191) >>
           [] u.ch \in {"HS", "FFFD"} -> << B(239), B(191), B(189) >>
           [] OTHER -> << B(CodePoint(u.ch)) >>

RECURSIVE TextEncode(_)
TextEncode(s) ==
    IF s = << >> THEN << >> ELSE Utf8Unit(Head(s)) \o TextEncode(Tail(s))

RECURSIVE Utf8Decode(_)
Utf8Decode(bs) ==
    IF bs = << >> THEN << >>
    ELSE LET h == Head(bs) IN
         IF "blk" \in DOMAIN h THEN << h.blk >> \o Utf8Decode(Tail(bs))
         ELSE IF ByteVal(h) \in 0..127
         THEN << Ch(CharOf(h.b)) >> \o Utf8Decode(Tail(bs))
         ELSE IF /\ Len(bs) >= 3
                 /\ << ByteVal(bs[1]), ByteVal(bs[2]), ByteVal(bs[3]) >>
                        = << 239, 187, 191 >>
         THEN << Ch("BOM") >> \o Utf8Decode(SubSeq(bs, 4, Len(bs)))
         ELSE IF /\ Len(bs) >= 3
                 /\ << ByteVal(bs[1]), ByteVal(bs[2]), ByteVal(bs[3]) >>
                        = << 239, 191, 189 >>
         THEN << Ch("FFFD") >> \o Utf8Decode(SubSeq(bs, 4, Len(bs)))
         ELSE << Ch("FFFD") >> \o Utf8Decode(Tail(bs))

\* new TextDecoder().decode(buffer): ignoreBOM is false, so a leading
\* U+FEFF is dropped from the output
TextDecode(bs) ==
    LET s == Utf8Decode(bs) IN
    IF s # << >> /\ s[1] = Ch("BOM") THEN Tail(s) ELSE s

(***************************************************************************)
(* JSON                                                                    *)
(***************************************************************************)
\* JSON.stringify({ salt, iv, cipherText })
\* the text of an object with the members ms, in order
JsonObject(ms) ==
    << Ch("{") >> \o Join([i \in 1..Len(ms) |-> << ms[i] >>], Ch(","))
                 \o << Ch("}") >>

JsonStringify(e) ==
    JsonObject(<< Fld("salt", e.salt), Fld("iv", e.iv),
                  Fld("cipherText", e.cipherText) >>)

IsJsonWhite(u) == IsCh(u) /\ u.ch \in {" ", "\t", "\r", "\n"}

RECURSIVE JsonTrimStart(_)
JsonTrimStart(s) ==
    IF s = << >> THEN << >>
    ELSE IF IsJsonWhite(Head(s)) THEN JsonTrimStart(Tail(s)) ELSE s

RECURSIVE JsonTrimEnd(_)
JsonTrimEnd(s) ==
    IF s = << >> THEN << >>
    ELSE IF IsJsonWhite(s[Len(s)])
    THEN JsonTrimEnd(SubSeq(s, 1, Len(s) - 1)) ELSE s

IsObjectText(t) ==
    /\ Len(t) >= 2
    /\ t[1] = Ch("{")
    /\ t[Len(t)] = Ch("}")
    /\ LET inner == SubSeq(t, 2, Len(t) - 1) IN
       \/ inner = << >>
       \/ /\ Len(inner) % 2 = 1
          /\ \A i \in 1..Len(inner) :
                IF i % 2 = 1 THEN IsFld(inner[i]) ELSE inner[i] = Ch(",")

ObjectOf(t) ==
    LET inner == SubSeq(t, 2, Len(t) - 1)
        at(n) == CHOOSE i \in 1..Len(inner) :
                    /\ IsFld(inner[i]) /\ inner[i].fld = n
                    /\ \A j \in (i + 1)..Len(inner) :
                          ~(IsFld(inner[j]) /\ inner[j].fld = n)
    IN [n \in {inner[i].fld : i \in {k \in 1..Len(inner) : IsFld(inner[k])}}
            |-> inner[at(n)].val]

\* JSON.parse(text): an object, null, a number, or a SyntaxError
JsonParse(text) ==
    LET t == JsonTrimEnd(JsonTrimStart(text)) IN
    IF IsObjectText(t) THEN [kind |-> "object", obj |-> ObjectOf(t)]
    ELSE IF t = Str(<< "n", "u", "l", "l" >>) THEN [kind |-> "null"]
    ELSE IF t # << >> /\ \A i \in 1..Len(t) : IsCh(t[i]) /\ t[i].ch \in {"1", "2"}
    THEN [kind |-> "number"]
    ELSE [kind |-> "error"]

\* obj.name for a parsed value
Get(j, n) ==
    IF j.kind = "object" /\ n \in DOMAIN j.obj THEN j.obj[n] ELSE Undefined

(***************************************************************************)
(* SecureKeyGenerator                                                      *)
(***************************************************************************)
\* crypto.randomBytes(length): the n-th draw of the process
RandomBytes(length, n) == << [rnd |-> n, w |-> length, x |-> 0] >>

\* a check that would reject negative lengths only
ValidateLengthNegativeOnly(length) ==
    IF length < 0 THEN Err("Length must be greater than zero.") ELSE Ok(length)

ValidateLength(length) ==
    IF length <= 0 THEN Err("Length must be greater than zero.") ELSE Ok(length)

GenerateBase64IV(length, n) ==
    IF ~ValidateLength(length).ok THEN ValidateLength(length)
    ELSE Ok(Base64Encode(RandomBytes(length, n)))

GenerateBufferIV(length, n) ==
    IF ~ValidateLength(length).ok THEN ValidateLength(length)
    ELSE Ok(RandomBytes(length, n))

GenerateSecureUint8Array(length, n) ==
    IF ~ValidateLength(length).ok THEN ValidateLength(length)
    ELSE Ok(RandomBytes(length, n))

GenerateBufferSalt(length, n) ==
    IF ~ValidateLength(length).ok THEN ValidateLength(length)
    ELSE Ok(RandomBytes(length, n))

GenerateBufferSecretKey(length, n) ==
    IF ~ValidateLength(length).ok THEN ValidateLength(length)
    ELSE Ok(RandomBytes(length, n))

GenerateBase64Salt(length, n) ==
    IF ~ValidateLength(length).ok THEN ValidateLength(length)
    ELSE Ok(Base64Encode(RandomBytes(length, n)))

GenerateWebCryptoIV(length, n) ==
    IF ~ValidateLength(length).ok THEN ValidateLength(length)
    ELSE GenerateSecureUint8Array(length, n)

GenerateBase64SecretKey(length, n) ==
    IF ~ValidateLength(length).ok THEN ValidateLength(length)
    ELSE Ok(Base64Encode(RandomBytes(length, n)))

Generators ==
    { "generateBase64IV", "generateBufferIV", "generateWebCryptoIV",
      "generateBase64Salt", "generateBufferSalt",
      "generateBase64SecretKey", "generateBufferSecretKey" }

\* the default of the length parameter
DefaultLength(name) ==
    CASE name \in {"generateBase64IV", "generateBufferIV"} -> IV
      [] name = "generateWebCryptoIV" -> WEB_CRYPTO_IV
      [] name \in {"generateBase64Salt", "generateBufferSalt"} -> SALT
      [] OTHER -> SECRET_KEY

\* one call of a generator when n draws have been made: what it returns or
\* throws, and the draws it makes.  crypto.randomBytes is reached, once,
\* only when validateLength has returned.
Generate(name, length, n) ==
    [result |->
        CASE name = "generateBase64IV" -> GenerateBase64IV(length, n)
          [] name = "generateBufferIV" -> GenerateBufferIV(length, n)
          [] name = "generateWebCryptoIV" -> GenerateWebCryptoIV(length, n)
          [] name = "generateBase64Salt" -> GenerateBase64Salt(length, n)
          [] name = "generateBufferSalt" -> GenerateBufferSalt(length, n)
          [] name = "generateBase64SecretKey"
                -> GenerateBase64SecretKey(length, n)
          [] OTHER -> GenerateBufferSecretKey(length, n),
     draws |-> IF ValidateLength(length).ok THEN 1 ELSE 0]

GenIdle == [name |-> "none", length |-> 0, result |-> Err("none"), before |-> 0]

GenLengths == (0 - MaxGenLength)..MaxGenLength

\* a generator called with a length
GeneratorCall(name, length) ==
    /\ entropy < MaxDraws
    /\ LET call == Generate(name, length, entropy) IN
       /\ gen' = [name |-> name, length |-> length,
                  result |-> call.result, before |-> entropy]
       /\ entropy' = entropy + call.draws
    /\ UNCHANGED <<handler, svc, dm, file, selectors, run, runsDone, baseFile, store, storesDone>>

\* a generator called without a length
GeneratorCallByDefault(name) == GeneratorCall(name, DefaultLength(name))

(***************************************************************************)
(* EncryptionService                                                       *)
(***************************************************************************)
\* argon2.hash(secretKey, options) followed by crypto.subtle.importKey.
\* `healthy` is whether the hash (256 MB of memory) could be computed.
DeriveKeyWithArgon2(secretKey, salt, healthy) ==
    IF ~healthy THEN Err("Argon2Error")
    ELSE Ok([raw |-> << [argon2id |-> [password |-> secretKey,
                                         salt |-> Base64Decode(salt),
                                         memoryCost |-> MEMORY_COST,
                                         timeCost |-> TIME_COST,
                                         parallelism |-> PARALLELISM],
                          w |-> SECRET_KEY] >>,
             name |-> "AES-GCM"])

\* crypto.subtle.encrypt({ name: 'AES-GCM', iv }, key, encode(value))
EncryptBuffer(webCryptoIv, key, value) ==
    LET data == TextEncode(value) IN
    << [gcm |-> [key |-> key, iv |-> webCryptoIv, pt |-> data],
        w |-> ByteLen(data) + GcmTagBytes, x |-> 0] >>

\* a cipher whose output is not bound to the key (no tag verified)
DecryptBufferKeyUnchecked(ivBuffer, key, cipherBuffer) ==
    IF /\ Len(cipherBuffer) = 1
       /\ "gcm" \in DOMAIN cipherBuffer[1]
       /\ cipherBuffer[1].x = 0
       /\ cipherBuffer[1].gcm.iv = ivBuffer
    THEN Ok(cipherBuffer[1].gcm.pt)
    ELSE Err("OperationError")

\* crypto.subtle.decrypt({ name: 'AES-GCM', iv }, key, cipherBuffer): the
\* tag verifies only for the unchanged ciphertext under the same key and IV
DecryptBuffer(ivBuffer, key, cipherBuffer) ==
    IF /\ Len(cipherBuffer) = 1
       /\ "gcm" \in DOMAIN cipherBuffer[1]
       /\ cipherBuffer[1].x = 0
       /\ cipherBuffer[1].gcm.key = key
       /\ cipherBuffer[1].gcm.iv = ivBuffer
    THEN Ok(cipherBuffer[1].gcm.pt)
    ELSE Err("OperationError")

\* an encrypt that keeps the salt and the IV it generated first
EncryptCachedSaltAndIv(value, secretKey, n, healthy) ==
    LET salt == GenerateBase64Salt(SALT, 0)
        webCryptoIv == GenerateWebCryptoIV(WEB_CRYPTO_IV, 1)
    IN
    IF ~salt.ok THEN salt
    ELSE IF ~webCryptoIv.ok THEN webCryptoIv
    ELSE LET key == DeriveKeyWithArgon2(secretKey, salt.value, healthy) IN
         IF ~key.ok THEN key
         ELSE Ok([salt |-> salt.value,
                  iv |-> Base64Encode(webCryptoIv.value),
                  cipherText |-> Base64Encode(
                      EncryptBuffer(webCryptoIv.value, key.value, value))])

\* encrypt(value, secretKey); n is the number of random draws made before
Encrypt(value, secretKey, n, healthy) ==
    LET salt == GenerateBase64Salt(SALT, n)
        webCryptoIv == GenerateWebCryptoIV(WEB_CRYPTO_IV, n + 1)
    IN
    IF ~salt.ok THEN salt
    ELSE IF ~webCryptoIv.ok THEN webCryptoIv
    ELSE LET key == DeriveKeyWithArgon2(secretKey, salt.value, healthy) IN
         IF ~key.ok THEN key
         ELSE Ok([salt |-> salt.value,
                  iv |-> Base64Encode(webCryptoIv.value),
                  cipherText |-> Base64Encode(
                      EncryptBuffer(webCryptoIv.value, key.value, value))])

\* a validation that looks for missing members only (=== undefined)
ValidateParsedDataPresenceOnly(params) ==
    IF params.kind = "null" THEN Err("TypeError")
    ELSE IF \/ Get(params, "salt") = Undefined
            \/ Get(params, "iv") = Undefined
            \/ Get(params, "cipherText") = Undefined
    THEN Err("Missing required properties in encryption parameters.")
    ELSE Ok(params)

ValidateParsedData(params) ==
    IF params.kind = "null" THEN Err("TypeError")
    ELSE IF \/ ~Truthy(Get(params, "salt"))
            \/ ~Truthy(Get(params, "iv"))
            \/ ~Truthy(Get(params, "cipherText"))
    THEN Err("Missing required properties in encryption parameters.")
    ELSE Ok(params)

ParseEncryptedData(encryptedData) ==
    IF encryptedData = EmptyText THEN Err("Encrypted data is required.")
    ELSE LET parsedData == JsonParse(encryptedData) IN
         IF parsedData.kind = "error" THEN Err("SyntaxError")
         ELSE ValidateParsedData(parsedData)

\* a decrypt that takes the IV from the wrong member of the envelope
DecryptSaltAsIv(encryptedData, secretKey, healthy) ==
    LET parsedData == ParseEncryptedData(encryptedData) IN
    IF ~parsedData.ok
    THEN [ok |-> FALSE, error |-> parsedData.error, steps |-> << "parse" >>]
    ELSE
    LET key == DeriveKeyWithArgon2(secretKey, Get(parsedData.value, "salt"),
                                   healthy)
    IN
    IF ~key.ok
    THEN [ok |-> FALSE, error |-> key.error, steps |-> << "parse", "derive" >>]
    ELSE
    LET dec == DecryptBuffer(Base64Decode(Get(parsedData.value, "salt")),
                             key.value,
                             Base64Decode(Get(parsedData.value, "cipherText")))
    IN
    IF ~dec.ok
    THEN [ok |-> FALSE, error |-> dec.error,
          steps |-> << "parse", "derive", "aead" >>]
    ELSE [ok |-> TRUE, value |-> TextDecode(dec.value),
          steps |-> << "parse", "derive", "aead", "decode" >>]

\* a decrypt that parses the text, derives the key and only then validates
\* the members
DecryptValidatingLate(encryptedData, secretKey, healthy) ==
    LET parsedData ==
            IF encryptedData = EmptyText THEN Err("Encrypted data is required.")
            ELSE IF JsonParse(encryptedData).kind = "error" THEN Err("SyntaxError")
            ELSE Ok(JsonParse(encryptedData))
    IN
    IF ~parsedData.ok
    THEN [ok |-> FALSE, error |-> parsedData.error, steps |-> << "parse" >>]
    ELSE
    LET key == DeriveKeyWithArgon2(secretKey, Get(parsedData.value, "salt"),
                                   healthy)
        validated == ValidateParsedData(parsedData.value)
    IN
    IF ~validated.ok
    THEN [ok |-> FALSE, error |-> validated.error,
          steps |-> << "parse", "derive" >>]
    ELSE IF ~key.ok
    THEN [ok |-> FALSE, error |-> key.error, steps |-> << "parse", "derive" >>]
    ELSE
    LET dec == DecryptBuffer(Base64Decode(Get(parsedData.value, "iv")),
                             key.value,
                             Base64Decode(Get(parsedData.value, "cipherText")))
    IN
    IF ~dec.ok
    THEN [ok |-> FALSE, error |-> dec.error,
          steps |-> << "parse", "derive", "aead" >>]
    ELSE [ok |-> TRUE, value |-> TextDecode(dec.value),
          steps |-> << "parse", "derive", "aead", "decode" >>]

\* decrypt(encryptedData, secretKey); `steps` lists the stages started
Decrypt(encryptedData, secretKey, healthy) ==
    LET parsedData == ParseEncryptedData(encryptedData) IN
    IF ~parsedData.ok
    THEN [ok |-> FALSE, error |-> parsedData.error, steps |-> << "parse" >>]
    ELSE
    LET key == DeriveKeyWithArgon2(secretKey, Get(parsedData.value, "salt"),
                                   healthy)
    IN
    IF ~key.ok
    THEN [ok |-> FALSE, error |-> key.error, steps |-> << "parse", "derive" >>]
    ELSE
    LET dec == DecryptBuffer(Base64Decode(Get(parsedData.value, "iv")),
                             key.value,
                             Base64Decode(Get(parsedData.value, "cipherText")))
    IN
    IF ~dec.ok
    THEN [ok |-> FALSE, error |-> dec.error,
          steps |-> << "parse", "derive", "aead" >>]
    ELSE [ok |-> TRUE, value |-> TextDecode(dec.value),
          steps |-> << "parse", "derive", "aead", "decode" >>]

\* the error classes of the specification
IsMalformedEnvelope(e) ==
    e \in {"Encrypted data is required.", "SyntaxError", "TypeError",
           "Missing required properties in encryption parameters."}
IsDecryptionFailed(e) == e = "OperationError"

(***************************************************************************)
(* One exchange with EncryptionService: a value is encrypted, the JSON     *)
(* text of its envelope is stored, possibly altered while at rest, and     *)
(* handed to decrypt.  Alternatively a text that is no envelope is handed  *)
(* to decrypt.                                                             *)
(***************************************************************************)
Passphrases == {"k1", "k2"}
PlainUnits == {Ch("a"), Ch("1"), Ch("BOM"), Ch("HS")}

RECURSIVE TextsUpTo(_, _)
TextsUpTo(units, n) ==
    IF n = 0 THEN {<< >>}
    ELSE LET shorter == TextsUpTo(units, n - 1) IN
         shorter \cup {Append(t, u) : t \in shorter, u \in units}

Plaintexts == TextsUpTo(PlainUnits, MaxPlainLen)

NoAlteration == [field |-> "none", how |-> "none"]

SvcIdle ==
    [phase |-> "idle", plain |-> << >>, pass |-> "none", text |-> << >>,
     alt |-> NoAlteration, dpass |-> "none", res |-> Err("none")]

\* an envelope as encrypt returns it, from draws outside the exchange
SampleEnvelope == Encrypt(Str(<< "a" >>), "k1", 900, TRUE).value

\* texts that are empty, not JSON, or objects lacking a required value
MalformedTexts ==
    LET e == SampleEnvelope
        s == Fld("salt", e.salt)
        i == Fld("iv", e.iv)
        c == Fld("cipherText", e.cipherText)
    IN { EmptyText,
         Str(<< "x" >>),
         Str(<< "{", "x", "}" >>),
         << Ch("{"), s, Ch(","), i, Ch(","), c >>,
         JsonObject(<< >>),
         JsonObject(<< s >>),
         JsonObject(<< s, i >>),
         JsonObject(<< s, c >>),
         JsonObject(<< i, c >>),
         JsonObject(<< Fld("salt", EmptyString), i, c >>),
         JsonObject(<< s, Fld("iv", EmptyString), c >>),
         JsonObject(<< s, i, Fld("cipherText", EmptyString) >>) }

\* valid JSON that is no object
NonObjectTexts == { Str(<< "n", "u", "l", "l" >>), Str(<< "1" >>) }

\* the text with the value of member `name` replaced by v
SetMember(text, name, v) ==
    [k \in 1..Len(text) |->
        IF IsFld(text[k]) /\ text[k].fld = name THEN Fld(name, v)
        ELSE text[k]]

MemberOf(text, name) ==
    (CHOOSE u \in {text[k] : k \in 1..Len(text)} :
        IsFld(u) /\ u.fld = name).val

SvcEncrypt(p, k) ==
    /\ svc.phase = "idle"
    /\ LET e == Encrypt(p, k, entropy, TRUE) IN
       /\ e.ok
       /\ svc' = [svc EXCEPT !.phase = "sealed", !.plain = p, !.pass = k,
                             !.text = JsonStringify(e.value)]
    /\ entropy' = entropy + 2
    /\ UNCHANGED <<handler, gen, dm, file, selectors, run, runsDone, baseFile, store, storesDone>>

\* one character of a member's base64 text is replaced: either the bytes
\* it decodes to change, or only the bits that encode no byte
SvcAlter(f, how) ==
    /\ svc.phase = "sealed"
    /\ svc.alt = NoAlteration
    /\ LET v == MemberOf(svc.text, f) IN
       /\ how = "slack" => ByteLen(v.b64) % 3 # 0
       /\ svc' = [svc EXCEPT
                    !.alt = [field |-> f, how |-> how],
                    !.text = SetMember(svc.text, f,
                        IF how = "bytes"
                        THEN [v EXCEPT !.b64 = Corrupt(v.b64)]
                        ELSE [v EXCEPT !.slack = 1])]
    /\ UNCHANGED <<handler, gen, entropy, dm, file, selectors, run, runsDone, baseFile, store, storesDone>>

SvcForeignText(t, kind) ==
    /\ svc.phase = "idle"
    /\ svc' = [svc EXCEPT !.phase = "sealed", !.text = t,
                          !.alt = [field |-> "text", how |-> kind]]
    /\ UNCHANGED <<handler, gen, entropy, dm, file, selectors, run, runsDone, baseFile, store, storesDone>>

SvcDecrypt(k) ==
    /\ svc.phase = "sealed"
    /\ svc' = [svc EXCEPT !.phase = "opened", !.dpass = k,
                          !.res = Decrypt(svc.text, k, TRUE)]
    /\ UNCHANGED <<handler, gen, entropy, dm, file, selectors, run, runsDone, baseFile, store, storesDone>>

NextCrypto ==
    \/ \E p \in Plaintexts, k \in Passphrases : SvcEncrypt(p, k)
    \/ \E f \in {"salt", "iv", "cipherText"}, how \in {"bytes", "slack"} :
          SvcAlter(f, how)
    \/ \E t \in MalformedTexts : SvcForeignText(t, "malformed")
    \/ \E t \in NonObjectTexts : SvcForeignText(t, "nonobject")
    \/ \E k \in Passphrases : SvcDecrypt(k)

(***************************************************************************)
(* EnvironmentEncryptionManager: pure parts                                *)
(* A Record<string, string> is the sequence of its [key, value] entries in *)
(* insertion order.                                                        *)
(***************************************************************************)
Null == [null |-> TRUE]

HasKey(obj, k) == \E i \in 1..Len(obj) : obj[i].key = k
Lookup(obj, k) == obj[CHOOSE i \in 1..Len(obj) : obj[i].key = k].value

\* obj[k] = v
Assign(obj, k, v) ==
    IF HasKey(obj, k)
    THEN [i \in 1..Len(obj) |->
            IF obj[i].key = k THEN [key |-> k, value |-> v] ELSE obj[i]]
    ELSE Append(obj, [key |-> k, value |-> v])

\* Object.assign(target, source)
RECURSIVE ObjectAssign(_, _)
ObjectAssign(target, source) ==
    IF source = << >> THEN target
    ELSE ObjectAssign(Assign(target, source[1].key, source[1].value),
                      Tail(source))

ParseEnvironmentLine(line) ==
    LET trimmedLine == Trim(line) IN
    IF trimmedLine = << >> \/ ~Includes(trimmedLine, EQ) THEN Null
    ELSE LET parts == Split(trimmedLine, EQ)
             key == parts[1]
             value == Join(Tail(parts), EQ)
         IN IF key # << >> /\ value # << >>
            THEN [key |-> Trim(key), value |-> Trim(value)]
            ELSE Null

RECURSIVE ExtractInto(_, _)
ExtractInto(variables, lines) ==
    IF lines = << >> THEN variables
    ELSE LET parsedVariable == ParseEnvironmentLine(Head(lines)) IN
         ExtractInto(IF parsedVariable = Null THEN variables
                     ELSE Assign(variables, parsedVariable.key,
                                 parsedVariable.value),
                     Tail(lines))

ExtractEnvironmentVariables(lines) == ExtractInto(<< >>, lines)

\* a lookup whose scan of the values keeps the last match
FindEnvironmentVariableByKeyLastMatch(allEnvVariables, lookupValue) ==
    IF HasKey(allEnvVariables, lookupValue)
       /\ Lookup(allEnvVariables, lookupValue) # << >>
    THEN << [key |-> lookupValue,
             value |-> Lookup(allEnvVariables, lookupValue)] >>
    ELSE IF \E i \in 1..Len(allEnvVariables) :
                allEnvVariables[i].value = lookupValue
    THEN << allEnvVariables[
              CHOOSE i \in 1..Len(allEnvVariables) :
                 /\ allEnvVariables[i].value = lookupValue
                 /\ \A j \in (i + 1)..Len(allEnvVariables) :
                       allEnvVariables[j].value # lookupValue] >>
    ELSE << >>

\* Object.entries lists the keys in the order of their first assignment
\* (the keys of the files considered are names, not array indices)
FindEnvironmentVariableByKey(allEnvVariables, lookupValue) ==
    IF HasKey(allEnvVariables, lookupValue)
       /\ Lookup(allEnvVariables, lookupValue) # << >>
    THEN << [key |-> lookupValue,
             value |-> Lookup(allEnvVariables, lookupValue)] >>
    ELSE IF \E i \in 1..Len(allEnvVariables) :
                allEnvVariables[i].value = lookupValue
    THEN << allEnvVariables[
              CHOOSE i \in 1..Len(allEnvVariables) :
                 /\ allEnvVariables[i].value = lookupValue
                 /\ \A j \in 1..(i - 1) :
                       allEnvVariables[j].value # lookupValue] >>
    ELSE << >>

RECURSIVE ResolveInto(_, _, _)
ResolveInto(variablesToEncrypt, allEnvVariables, envVariables) ==
    IF envVariables = << >> THEN variablesToEncrypt
    ELSE ResolveInto(
            ObjectAssign(variablesToEncrypt,
                FindEnvironmentVariableByKey(allEnvVariables,
                                             Head(envVariables))),
            allEnvVariables, Tail(envVariables))

\* `!found` for the object returned by findEnvironmentVariableByKey: an
\* object is truthy, the empty one included
IsFalsyObject(obj) == FALSE

\* the selectors for which resolveVariablesToEncrypt logs its warning
RECURSIVE ResolveWarnings(_, _)
ResolveWarnings(allEnvVariables, envVariables) ==
    IF envVariables = << >> THEN << >>
    ELSE LET found == FindEnvironmentVariableByKey(allEnvVariables,
                                                   Head(envVariables))
         IN (IF IsFalsyObject(found) THEN << Head(envVariables) >>
             ELSE << >>)
            \o ResolveWarnings(allEnvVariables, Tail(envVariables))

\* envVariables = << >> stands for an omitted or empty selector list
ResolveVariablesToEncrypt(allEnvVariables, envVariables) ==
    IF Len(envVariables) > 0
    THEN ResolveInto(<< >>, allEnvVariables, envVariables)
    ELSE ObjectAssign(<< >>, allEnvVariables)

\* a probe that looks for a member named 'ciphertext'
IsAlreadyEncryptedMisspelt(value) ==
    IF value = << >> THEN FALSE
    ELSE LET trimmedValue == Trim(value) IN
         IF ~(StartsWith(trimmedValue, << Ch("{") >>)
              /\ EndsWith(trimmedValue, << Ch("}") >>))
         THEN FALSE
         ELSE LET parsedData == JsonParse(value) IN
              IF parsedData.kind = "error" THEN FALSE
              ELSE /\ parsedData.kind = "object"
                   /\ "salt" \in DOMAIN parsedData.obj
                   /\ "iv" \in DOMAIN parsedData.obj
                   /\ "ciphertext" \in DOMAIN parsedData.obj

\* a probe that goes by the braces alone
IsAlreadyEncryptedByBraces(value) ==
    IF value = << >> THEN FALSE
    ELSE LET trimmedValue == Trim(value) IN
         /\ StartsWith(trimmedValue, << Ch("{") >>)
         /\ EndsWith(trimmedValue, << Ch("}") >>)

IsAlreadyEncrypted(value) ==
    IF value = << >> THEN FALSE
    ELSE LET trimmedValue == Trim(value) IN
         IF ~(StartsWith(trimmedValue, << Ch("{") >>)
              /\ EndsWith(trimmedValue, << Ch("}") >>))
         THEN FALSE
         ELSE LET parsedData == JsonParse(value) IN
              IF parsedData.kind = "error" THEN FALSE
              ELSE /\ parsedData.kind = "object"
                   /\ "salt" \in DOMAIN parsedData.obj
                   /\ "iv" \in DOMAIN parsedData.obj
                   /\ "cipherText" \in DOMAIN parsedData.obj

\* returns the value itself when it is already encrypted, else the
\* envelope of a fresh encryption
EncryptValueIfPlaintext(value, secretKey, n, healthy) ==
    IF IsAlreadyEncrypted(value) THEN Ok([string |-> value])
    ELSE LET encryptedResult == Encrypt(value, secretKey, n, healthy) IN
         IF ~encryptedResult.ok THEN encryptedResult
         ELSE Ok([salt |-> encryptedResult.value.salt,
                  iv |-> encryptedResult.value.iv,
                  cipherText |-> encryptedResult.value.cipherText])

\* an update that replaces the first line of the variable only
UpdateEnvironmentFileLinesFirstOnly(existingLines, envVariable, value) ==
    LET prefix == envVariable \o << EQ >>
        isUpdated == \E i \in 1..Len(existingLines) :
                        StartsWith(existingLines[i], prefix)
        updatedLines == [i \in 1..Len(existingLines) |->
                            IF /\ StartsWith(existingLines[i], prefix)
                               /\ \A j \in 1..(i - 1) :
                                     ~StartsWith(existingLines[j], prefix)
                            THEN prefix \o value
                            ELSE existingLines[i]]
    IN IF isUpdated THEN updatedLines
       ELSE Append(updatedLines, prefix \o value)

UpdateEnvironmentFileLines(existingLines, envVariable, value) ==
    LET prefix == envVariable \o << EQ >>
        isUpdated == \E i \in 1..Len(existingLines) :
                        StartsWith(existingLines[i], prefix)
        updatedLines == [i \in 1..Len(existingLines) |->
                            IF StartsWith(existingLines[i], prefix)
                            THEN prefix \o value
                            ELSE existingLines[i]]
    IN IF isUpdated THEN updatedLines
       ELSE Append(updatedLines, prefix \o value)

(***************************************************************************)
(* EnvironmentEncryptionManager.encryptAndUpdateEnvironmentVariables       *)
(* One invocation is a process: it reads the file, handles one target per  *)
(* step (each `await this.encryptValueIfPlaintext`), then writes the file. *)
(***************************************************************************)
Procs == {1, 2}

\* the secretKeyVariable argument (EnvironmentSecretKeyVariables.UAT)
SecretKeyVariable == "UAT_SECRET_KEY"

RunIdle ==
    [pc |-> "idle", before |-> << >>, envFileLines |-> << >>,
     targets |-> << >>, idx |-> 0, updatedLines |-> << >>,
     encryptedCount |-> 0, calls |-> << >>, writes |-> 0,
     warnings |-> << >>, selectors |-> << >>, readAfter |-> 0,
     error |-> "none"]

Started == Len(runsDone) + Cardinality({q \in Procs : run[q].pc # "idle"})

\* JSON.stringify of what encryptValueIfPlaintext returned
StringifyResult(r) ==
    IF "string" \in DOMAIN r
    THEN << Ch("\"") >> \o r.string \o << Ch("\"") >>
    ELSE JsonStringify(r)

\* what a finished invocation leaves in the history
Outcome(r, how, content) ==
    [outcome |-> how, before |-> r.before, after |-> content,
     targets |-> r.targets, processed |-> r.idx - 1,
     encryptedCount |-> r.encryptedCount, calls |-> r.calls,
     writes |-> r.writes, selectors |-> r.selectors,
     warnings |-> r.warnings, readAfter |-> r.readAfter,
     error |-> r.error]

\* history: the number of writes of the file made so far
WritesDone ==
    Cardinality({i \in 1..Len(runsDone) : runsDone[i].outcome = "done"})

\* readEnvironmentFileAsLines, extractEnvironmentVariables and
\* resolveVariablesToEncrypt
ReadStep(p, envVariables) ==
    /\ run[p].pc = "idle"
    /\ Started < MaxRuns
    /\ LET envFileLines == Split(file, NL)
           allEnvVariables == ExtractEnvironmentVariables(envFileLines)
       IN run' = [run EXCEPT ![p] =
                    [RunIdle EXCEPT
                       !.pc = "encrypting",
                       !.before = file,
                       !.envFileLines = envFileLines,
                       !.targets = ResolveVariablesToEncrypt(allEnvVariables,
                                                             envVariables),
                       !.idx = 1,
                       !.updatedLines = envFileLines,
                       !.warnings = ResolveWarnings(allEnvVariables,
                                                    envVariables),
                       !.selectors = envVariables,
                       !.readAfter = WritesDone]]
    /\ UNCHANGED <<handler, gen, entropy, svc, dm, file, selectors, runsDone, baseFile, store, storesDone>>

\* an invocation with the selector list of the run
EnvRead(p) == ReadStep(p, selectors)

\* what fs.promises.readFile throws when the file cannot be read
ReadFailure == "ENOENT"

\* a read that would report its failure and go on with no content
EnvReadFailContinuing(p) ==
    /\ run[p].pc = "idle"
    /\ Started < MaxRuns
    /\ run' = [run EXCEPT ![p] =
                 [RunIdle EXCEPT !.pc = "encrypting", !.before = file,
                                 !.envFileLines = << EmptyText >>,
                                 !.updatedLines = << EmptyText >>,
                                 !.idx = 1,
                                 !.selectors = selectors,
                                 !.readAfter = WritesDone,
                                 !.error = ReadFailure]]
    /\ UNCHANGED <<handler, gen, entropy, svc, dm, file, selectors, runsDone, baseFile, store, storesDone>>

\* the read of the file fails (FileAccessError): the call fails
EnvReadFail(p) ==
    /\ run[p].pc = "idle"
    /\ Started < MaxRuns
    /\ runsDone' = Append(runsDone,
                      Outcome([RunIdle EXCEPT !.before = file, !.idx = 1,
                                              !.selectors = selectors,
                                              !.readAfter = WritesDone,
                                              !.error = ReadFailure],
                              "failed", file))
    /\ UNCHANGED <<handler, gen, entropy, svc, dm, file, selectors, run, baseFile, store, storesDone>>

\* one iteration of the loop of encryptVariableValuesInFileLines; when
\* encrypt throws, the invocation fails without reaching the write
TargetStep(p, healthy) ==
    /\ run[p].pc = "encrypting"
    /\ run[p].idx <= Len(run[p].targets)
    /\ LET r == run[p]
           key == r.targets[r.idx].key
           value == r.targets[r.idx].value
           called == value # << >> /\ ~IsAlreadyEncrypted(Trim(value))
           encryptedValue ==
               EncryptValueIfPlaintext(Trim(value), SecretKeyVariable,
                                       entropy, healthy)
           calls == IF called
                    THEN Append(r.calls,
                            [key |-> key, value |-> Trim(value),
                             secretKey |-> SecretKeyVariable,
                             envelope |-> IF encryptedValue.ok
                                          THEN encryptedValue.value
                                          ELSE Null])
                    ELSE r.calls
       IN
       /\ entropy' = IF called THEN entropy + 2 ELSE entropy
       /\ IF value = << >>
          THEN /\ run' = [run EXCEPT ![p].idx = r.idx + 1]
               /\ UNCHANGED runsDone
          ELSE IF ~encryptedValue.ok
          THEN /\ run' = [run EXCEPT ![p] = RunIdle]
               /\ runsDone' = Append(runsDone,
                     Outcome([r EXCEPT !.calls = calls,
                                       !.error = encryptedValue.error],
                             "failed", file))
          ELSE IF encryptedValue.value = [string |-> value]
          THEN /\ run' = [run EXCEPT ![p].idx = r.idx + 1]
               /\ UNCHANGED runsDone
          ELSE /\ run' = [run EXCEPT
                    ![p].idx = r.idx + 1,
                    ![p].calls = calls,
                    ![p].encryptedCount = r.encryptedCount + 1,
                    ![p].updatedLines =
                        UpdateEnvironmentFileLines(r.updatedLines, key,
                            StringifyResult(encryptedValue.value))]
               /\ UNCHANGED runsDone
    /\ UNCHANGED <<handler, gen, svc, dm, selectors, baseFile, store, storesDone>>

\* a loop that would store each replacement as soon as it is made
EnvEncryptTargetWritingThrough(p, healthy) ==
    /\ TargetStep(p, healthy)
    /\ file' = IF run'[p].pc = "encrypting"
                  /\ run'[p].encryptedCount > run[p].encryptedCount
               THEN Join(run'[p].updatedLines, NL)
               ELSE file

EnvEncryptTarget(p, healthy) ==
    /\ TargetStep(p, healthy)
    /\ UNCHANGED file

\* the replacements of the calls made by an invocation, applied to lines
RECURSIVE ApplyCalls(_, _)
ApplyCalls(lines, calls) ==
    IF calls = << >> THEN lines
    ELSE ApplyCalls(
            IF Head(calls).envelope = Null THEN lines
            ELSE UpdateEnvironmentFileLines(lines, Head(calls).key,
                    StringifyResult(Head(calls).envelope)),
            Tail(calls))

\* a write that would read the file again and merge its replacements into
\* what is there
EnvWriteMerging(p) ==
    /\ run[p].pc = "encrypting"
    /\ run[p].idx > Len(run[p].targets)
    /\ file' = Join(ApplyCalls(Split(file, NL), run[p].calls), NL)
    /\ runsDone' = Append(runsDone,
                      Outcome([run[p] EXCEPT !.writes = @ + 1], "done", file'))
    /\ run' = [run EXCEPT ![p] = RunIdle]
    /\ UNCHANGED <<handler, gen, entropy, svc, dm, selectors, baseFile, store, storesDone>>

\* writeEnvironmentFileLines, after the loop
EnvWrite(p) ==
    /\ run[p].pc = "encrypting"
    /\ run[p].idx > Len(run[p].targets)
    /\ file' = Join(run[p].updatedLines, NL)
    /\ runsDone' = Append(runsDone,
                      Outcome([run[p] EXCEPT !.writes = @ + 1], "done", file'))
    /\ run' = [run EXCEPT ![p] = RunIdle]
    /\ UNCHANGED <<handler, gen, entropy, svc, dm, selectors, baseFile, store, storesDone>>

(***************************************************************************)
(* ErrorHandler: the cache of recently logged errors                       *)
(***************************************************************************)
MAX_CACHE_SIZE == 1000
CACHE_TTL == 1000 * 60 * 20
CacheKeyLength == 30

\* loggedErrors, a Map from cache key to timestamp, in insertion order.  An
\* entry of count n stands for n keys inserted one after the other with one
\* timestamp; a key that is followed individually has count 1.
RECURSIVE CacheSize(_)
CacheSize(loggedErrors) ==
    IF loggedErrors = << >> THEN 0
    ELSE Head(loggedErrors).count + CacheSize(Tail(loggedErrors))

CacheHas(loggedErrors, cacheKey) ==
    \E i \in 1..Len(loggedErrors) : loggedErrors[i].key = cacheKey

\* Map.get; 0 stands for undefined, which the caller does not tell from 0
CacheGet(loggedErrors, cacheKey) ==
    IF CacheHas(loggedErrors, cacheKey)
    THEN LET i == CHOOSE i \in 1..Len(loggedErrors) : loggedErrors[i].key = cacheKey
         IN loggedErrors[i].timestamp
    ELSE 0

CacheDelete(loggedErrors, cacheKey) ==
    SelectSeq(loggedErrors, LAMBDA e : e.key # cacheKey)

\* Map.set: a key already present keeps its place
CacheSet(loggedErrors, cacheKey, count, now) ==
    IF CacheHas(loggedErrors, cacheKey)
    THEN [i \in 1..Len(loggedErrors) |->
            IF loggedErrors[i].key = cacheKey
            THEN [loggedErrors[i] EXCEPT !.timestamp = now]
            ELSE loggedErrors[i]]
    ELSE Append(loggedErrors, [key |-> cacheKey, timestamp |-> now, count |-> count])

\* answers whether the key was logged within the time to live, and deletes
\* the entry it finds expired
IsRecentlyLoggedExpiringEarly(loggedErrors, cacheKey, now) ==
    LET timestamp == CacheGet(loggedErrors, cacheKey) IN
    IF timestamp = 0 THEN [recent |-> FALSE, loggedErrors |-> loggedErrors]
    ELSE IF now - timestamp >= CACHE_TTL
         THEN [recent |-> FALSE, loggedErrors |-> CacheDelete(loggedErrors, cacheKey)]
         ELSE [recent |-> TRUE, loggedErrors |-> loggedErrors]

IsRecentlyLogged(loggedErrors, cacheKey, now) ==
    LET timestamp == CacheGet(loggedErrors, cacheKey) IN
    IF timestamp = 0 THEN [recent |-> FALSE, loggedErrors |-> loggedErrors]
    ELSE IF now - timestamp > CACHE_TTL
         THEN [recent |-> FALSE, loggedErrors |-> CacheDelete(loggedErrors, cacheKey)]
         ELSE [recent |-> TRUE, loggedErrors |-> loggedErrors]

CleanExpiredEntries(loggedErrors, now) ==
    SelectSeq(loggedErrors, LAMBDA e : ~(now - e.timestamp > CACHE_TTL))

\* Array.prototype.sort by timestamp ascending; the sort is stable, so among
\* equal timestamps the entry inserted first comes first
RECURSIVE InsertByTimestamp(_, _, _)
InsertByTimestamp(order, i, loggedErrors) ==
    IF order = << >> THEN << i >>
    ELSE IF loggedErrors[Head(order)].timestamp <= loggedErrors[i].timestamp
         THEN << Head(order) >> \o InsertByTimestamp(Tail(order), i, loggedErrors)
         ELSE << i >> \o order

RECURSIVE ErrorEntryList(_, _)
ErrorEntryList(loggedErrors, n) ==
    IF n = 0 THEN << >>
    ELSE InsertByTimestamp(ErrorEntryList(loggedErrors, n - 1), n, loggedErrors)

RECURSIVE DeleteFirst(_, _, _)
DeleteFirst(loggedErrors, order, excessEntryCount) ==
    IF excessEntryCount <= 0 \/ order = << >> THEN loggedErrors
    ELSE LET i == Head(order)
             taken == IF loggedErrors[i].count < excessEntryCount
                      THEN loggedErrors[i].count ELSE excessEntryCount
         IN DeleteFirst([loggedErrors EXCEPT ![i].count = @ - taken],
                        Tail(order), excessEntryCount - taken)

RemoveOldestEntries(loggedErrors) ==
    SelectSeq(DeleteFirst(loggedErrors,
                          ErrorEntryList(loggedErrors, Len(loggedErrors)),
                          CacheSize(loggedErrors) - MAX_CACHE_SIZE),
              LAMBDA e : e.count > 0)

ManageCacheSizeKeepingExpired(loggedErrors, cacheKey, count, now) ==
    LET added == CacheSet(loggedErrors, cacheKey, count, now) IN
    IF CacheSize(added) > MAX_CACHE_SIZE THEN RemoveOldestEntries(added) ELSE added

ManageCacheSize(loggedErrors, cacheKey, count, now) ==
    LET added == CacheSet(CleanExpiredEntries(loggedErrors, now), cacheKey, count, now) IN
    IF CacheSize(added) > MAX_CACHE_SIZE THEN RemoveOldestEntries(added) ELSE added

\* the part of an error that captureError looks at: where it was captured,
\* its category and status code, its message, whether it carries properties
\* of its own (extra details), and whether it is the expected failure of a
\* negative test
Substring(message, n) ==
    SubSeq(message, 1, IF Len(message) < n THEN Len(message) ELSE n)

CreateCacheKey(details) ==
    << details.source, details.category, details.statusCode,
       Substring(details.message, CacheKeyLength) >>

\* the records one call writes: the details, and the extra details when the
\* error has any
RecordsWritten(error) == IF error.extra THEN 2 ELSE 1

\* history: what removeOldestEntries took out of the cache `added` to leave `kept`
CountOf(loggedErrors, cacheKey) ==
    IF CacheHas(loggedErrors, cacheKey)
    THEN LET i == CHOOSE i \in 1..Len(loggedErrors) : loggedErrors[i].key = cacheKey
         IN loggedErrors[i].count
    ELSE 0

EvictedEntries(added, kept) ==
    { [key |-> added[i].key, timestamp |-> added[i].timestamp,
       count |-> added[i].count - CountOf(kept, added[i].key)] :
         i \in {n \in 1..Len(added) : CountOf(kept, added[n].key) < added[n].count} }

HandlerIdle ==
    [loggedErrors |-> << >>, now |-> 1, log |-> << >>, calls |-> 0, last |-> "none",
     evicted |-> {}]

\* captureError, entered `elapsed` milliseconds after the call before it
CaptureError(error, elapsed) ==
    /\ handler.calls < MaxCaptures
    /\ LET now == handler.now + elapsed
           cacheKey == CreateCacheKey(error)
           seen == IsRecentlyLogged(handler.loggedErrors, cacheKey, now)
           added == CacheSet(CleanExpiredEntries(seen.loggedErrors, now), cacheKey, 1, now)
           kept == ManageCacheSize(seen.loggedErrors, cacheKey, 1, now)
       IN handler' =
            IF error.expected
            THEN [handler EXCEPT !.now = now, !.calls = @ + 1, !.last = "skipped",
                                 !.evicted = {}]
            ELSE IF seen.recent
            THEN [handler EXCEPT !.now = now, !.calls = @ + 1, !.last = "duplicate",
                                 !.evicted = {}]
            ELSE [handler EXCEPT
                    !.now = now, !.calls = @ + 1, !.last = "logged",
                    !.loggedErrors = kept,
                    !.evicted = EvictedEntries(added, kept),
                    !.log = Append(@, [key |-> cacheKey, at |-> now, count |-> 1,
                                       records |-> RecordsWritten(error)])]
    /\ UNCHANGED <<gen, entropy, svc, dm, file, selectors, run, runsDone, baseFile,
                   store, storesDone>>

\* count calls of captureError in a row, all within one millisecond, for
\* errors whose cache keys are new and differ from each other: none is found
\* in the cache, each is logged and inserted, and each insertion over the
\* limit removes the entry that is then the oldest
NewKeys == "new"
CaptureNewErrors(count, elapsed) ==
    /\ handler.calls < MaxCaptures
    /\ LET now == handler.now + elapsed
           cacheKey == << NewKeys, handler.calls >>
           added == CacheSet(CleanExpiredEntries(handler.loggedErrors, now), cacheKey,
                             count, now)
           kept == ManageCacheSize(handler.loggedErrors, cacheKey, count, now)
       IN
       handler' =
         [handler EXCEPT
            !.now = now, !.calls = @ + 1, !.last = "logged",
            !.loggedErrors = kept,
            !.evicted = EvictedEntries(added, kept),
            !.log = Append(@, [key |-> cacheKey, at |-> now,
                               count |-> count, records |-> 1])]
    /\ UNCHANGED <<gen, entropy, svc, dm, file, selectors, run, runsDone, baseFile,
                   store, storesDone>>

Message(tail) == [i \in 1..CacheKeyLength |-> "m"] \o tail
ErrorPool ==
    { [source |-> "encrypt", category |-> "UNKNOWN", statusCode |-> "0",
       message |-> Message(<< "a" >>), extra |-> FALSE, expected |-> FALSE],
      [source |-> "encrypt", category |-> "UNKNOWN", statusCode |-> "0",
       message |-> Message(<< "b" >>), extra |-> FALSE, expected |-> FALSE],
      [source |-> "readFile", category |-> "FILE_NOT_FOUND", statusCode |-> "0",
       message |-> << "E", "N", "O", "E", "N", "T" >>, extra |-> TRUE,
       expected |-> FALSE],
      [source |-> "sendRequest", category |-> "HTTP_CLIENT", statusCode |-> "404",
       message |-> << "H", "T", "T", "P" >>, extra |-> TRUE, expected |-> TRUE] }
Elapsed == {0, 1, CACHE_TTL}
NewErrorCounts == {MAX_CACHE_SIZE - 1, MAX_CACHE_SIZE}

(***************************************************************************)
(* Environment files and selector lists the invocations are run on         *)
(***************************************************************************)
\* an envelope written to the file by an earlier use of the tool
StoredEnvelope == Encrypt(Str(<< "2" >>), SecretKeyVariable, 800, TRUE).value

LinePool ==
    { Str(<< "A", "=", "1" >>),
      Str(<< "B", "=", "1" >>),
      Str(<< " ", "A", "=", "2" >>),
      Str(<< "#", "x" >>),
      << >>,
      Str(<< "B", "=" >>) \o JsonStringify(StoredEnvelope),
      Str(<< "C", "=", "{", "x", "}" >>) }

RECURSIVE LineLists(_)
LineLists(n) ==
    IF n = 0 THEN {<< >>}
    ELSE LET shorter == LineLists(n - 1) IN
         shorter \cup {Append(ls, l) : ls \in shorter, l \in LinePool}

Files == {Join(ls, NL) : ls \in LineLists(MaxLines) \ {<< >>}}

SelectorChoices ==
    { << >>,
      << Str(<< "A" >>) >>,
      << Str(<< "B" >>) >>,
      << Str(<< "1" >>) >>,
      << Str(<< "C" >>), Str(<< "A" >>) >>,
      << Str(<< "x" >>), Str(<< "B" >>) >> }

DmIdle ==
    [phase |-> "idle", inputs |-> << >>, secretKey |-> "none",
     tasks |-> << >>, order |-> << >>, outcome |-> "pending",
     result |-> Null, error |-> Null]
BaseAbsent == [exists |-> FALSE, content |-> EmptyText]
StoreIdle ==
    [p \in Procs |-> [pc |-> "idle", secretKey |-> Null,
                      before |-> EmptyText, fileContent |-> EmptyText]]

InitEnv ==
    /\ entropy = 0
    /\ svc = SvcIdle
    /\ dm = DmIdle
    /\ file \in Files
    /\ selectors \in SelectorChoices
    /\ run = [p \in Procs |-> RunIdle]
    /\ runsDone = << >>
    /\ baseFile = BaseAbsent
    /\ store = StoreIdle
    /\ storesDone = << >>
    /\ gen = GenIdle
    /\ handler = HandlerIdle

\* invocations one after the other
NextEnv ==
    \/ EnvRead(1)
    \/ EnvReadFail(1)
    \/ \E healthy \in BOOLEAN : EnvEncryptTarget(1, healthy)
    \/ EnvWrite(1)

SpecEnv == InitEnv /\ [][NextEnv]_vars

InitCrypto ==
    /\ entropy = 0
    /\ svc = SvcIdle
    /\ dm = DmIdle
    /\ file = EmptyText
    /\ selectors = << >>
    /\ run = [p \in Procs |-> RunIdle]
    /\ runsDone = << >>
    /\ baseFile = BaseAbsent
    /\ store = StoreIdle
    /\ storesDone = << >>
    /\ gen = GenIdle
    /\ handler = HandlerIdle

SpecCrypto == InitCrypto /\ [][NextCrypto]_vars

(***************************************************************************)
(* EncryptionService.decryptMultipleKeys: every decrypt is started in      *)
(* input order and runs to its first await; the key derivations and the    *)
(* AES-GCM operations then complete in any order.  Promise.all settles the *)
(* call.  `order` records the order in which the decrypts completed.       *)
(***************************************************************************)
\* decrypt up to `await this.deriveKeyWithArgon2`
DecryptStart(encryptedData) ==
    LET parsedData == ParseEncryptedData(encryptedData) IN
    IF ~parsedData.ok
    THEN [pc |-> "rejected", error |-> parsedData.error]
    ELSE [pc |-> "kdf", params |-> parsedData.value]

\* decrypt from the derived key up to `await this.decryptBuffer`
DecryptAfterKdf(t, secretKey, healthy) ==
    LET key == DeriveKeyWithArgon2(secretKey, Get(t.params, "salt"), healthy)
    IN
    IF ~key.ok
    THEN [pc |-> "rejected", error |-> key.error]
    ELSE [pc |-> "aead", params |-> t.params, key |-> key.value]

\* decrypt from the AES-GCM result to its return
DecryptAfterAead(t) ==
    LET dec == DecryptBuffer(Base64Decode(Get(t.params, "iv")), t.key,
                             Base64Decode(Get(t.params, "cipherText")))
    IN
    IF ~dec.ok
    THEN [pc |-> "rejected", error |-> dec.error]
    ELSE [pc |-> "resolved", value |-> TextDecode(dec.value)]

Settled(t) == t.pc \in {"resolved", "rejected"}

\* an aggregate that waits for every decrypt and keeps what succeeded
PromiseAllSkippingFailures(d) ==
    IF d.outcome # "pending" THEN d
    ELSE IF \A i \in 1..Len(d.tasks) : Settled(d.tasks[i])
    THEN [d EXCEPT !.outcome = "fulfilled",
                   !.result =
                       LET kept == SelectSeq([i \in 1..Len(d.tasks) |-> i],
                                      LAMBDA i : d.tasks[i].pc = "resolved")
                       IN [j \in 1..Len(kept) |-> d.tasks[kept[j]].value]]
    ELSE d

\* an aggregate that collects the values as the decrypts complete
PromiseAllInCompletionOrder(d) ==
    IF d.outcome # "pending" THEN d
    ELSE IF \E i \in 1..Len(d.tasks) : d.tasks[i].pc = "rejected"
    THEN LET first == CHOOSE i \in 1..Len(d.tasks) :
                         /\ d.tasks[i].pc = "rejected"
                         /\ \A j \in 1..(i - 1) : d.tasks[j].pc # "rejected"
         IN [d EXCEPT !.outcome = "rejected", !.error = d.tasks[first].error]
    ELSE IF \A i \in 1..Len(d.tasks) : d.tasks[i].pc = "resolved"
    THEN [d EXCEPT !.outcome = "fulfilled",
                   !.result = [i \in 1..Len(d.order) |->
                                  d.tasks[d.order[i]].value]]
    ELSE d

\* Promise.all over the decrypts, and the await on it: rejected with the
\* error of the first rejection, fulfilled with the values by input index
PromiseAll(d) ==
    IF d.outcome # "pending" THEN d
    ELSE IF \E i \in 1..Len(d.tasks) : d.tasks[i].pc = "rejected"
    THEN LET first == CHOOSE i \in 1..Len(d.tasks) :
                         /\ d.tasks[i].pc = "rejected"
                         /\ \A j \in 1..(i - 1) : d.tasks[j].pc # "rejected"
         IN [d EXCEPT !.outcome = "rejected", !.error = d.tasks[first].error]
    ELSE IF \A i \in 1..Len(d.tasks) : d.tasks[i].pc = "resolved"
    THEN [d EXCEPT !.outcome = "fulfilled",
                   !.result = [i \in 1..Len(d.tasks) |-> d.tasks[i].value]]
    ELSE d

DmSecretKey == "k1"

\* stored envelopes (two under the caller's passphrase, one under another)
\* and a text that is no envelope
DmInputs ==
    { JsonStringify(Encrypt(Str(<< "a" >>), "k1", 700, TRUE).value),
      JsonStringify(Encrypt(Str(<< "1" >>), "k1", 710, TRUE).value),
      JsonStringify(Encrypt(Str(<< "a" >>), "k2", 720, TRUE).value),
      Str(<< "x" >>) }

RECURSIVE SeqsUpTo(_, _)
SeqsUpTo(S, n) ==
    IF n = 0 THEN {<< >>}
    ELSE LET shorter == SeqsUpTo(S, n - 1) IN
         shorter \cup {Append(q, x) : q \in shorter, x \in S}

Batches == SeqsUpTo(DmInputs, MaxBatch)

\* decryptMultipleKeys(encryptedDataArray, secretKey) up to its await
DmDispatch(encryptedDataArray, secretKey) ==
    /\ dm.phase = "idle"
    /\ LET tasks == [i \in 1..Len(encryptedDataArray) |->
                        DecryptStart(encryptedDataArray[i])]
       IN dm' = PromiseAll(
                  [dm EXCEPT !.phase = "running",
                             !.inputs = encryptedDataArray,
                             !.secretKey = secretKey,
                             !.tasks = tasks,
                             !.order = SelectSeq(
                                 [i \in 1..Len(tasks) |-> i],
                                 LAMBDA i : Settled(tasks[i]))])
    /\ UNCHANGED <<handler, gen, entropy, svc, file, selectors, run, runsDone, baseFile, store, storesDone>>

\* the key derivation of decrypt i completes
DmKeyDerived(i, healthy) ==
    /\ dm.phase = "running"
    /\ i \in 1..Len(dm.tasks)
    /\ dm.tasks[i].pc = "kdf"
    /\ LET t == DecryptAfterKdf(dm.tasks[i], dm.secretKey, healthy) IN
       dm' = PromiseAll(
               [dm EXCEPT !.tasks[i] = t,
                          !.order = IF Settled(t) THEN Append(@, i) ELSE @])
    /\ UNCHANGED <<handler, gen, entropy, svc, file, selectors, run, runsDone, baseFile, store, storesDone>>

\* the AES-GCM operation of decrypt i completes
DmDecrypted(i) ==
    /\ dm.phase = "running"
    /\ i \in 1..Len(dm.tasks)
    /\ dm.tasks[i].pc = "aead"
    /\ dm' = PromiseAll(
               [dm EXCEPT !.tasks[i] = DecryptAfterAead(dm.tasks[i]),
                          !.order = Append(@, i)])
    /\ UNCHANGED <<handler, gen, entropy, svc, file, selectors, run, runsDone, baseFile, store, storesDone>>

InitMulti ==
    /\ entropy = 0
    /\ svc = SvcIdle
    /\ dm = DmIdle
    /\ file = EmptyText
    /\ selectors = << >>
    /\ run = [p \in Procs |-> RunIdle]
    /\ runsDone = << >>
    /\ baseFile = BaseAbsent
    /\ store = StoreIdle
    /\ storesDone = << >>
    /\ gen = GenIdle
    /\ handler = HandlerIdle

NextMulti ==
    \/ \E b \in Batches : DmDispatch(b, DmSecretKey)
    \/ \E i \in 1..MaxBatch, healthy \in BOOLEAN : DmKeyDerived(i, healthy)
    \/ \E i \in 1..MaxBatch : DmDecrypted(i)

SpecMulti == InitMulti /\ [][NextMulti]_vars

(***************************************************************************)
(* EnvironmentSecretFileManager and                                        *)
(* EnvironmentEncryptionCoordinator.generateAndStoreSecretKey              *)
(***************************************************************************)
\* the characters of a base64 string, as one unit of a text
Tok(v) == [tok |-> v]

\* where ^ matches under the 'm' flag
LineTerminators == {Ch("\n"), Ch("\r")}
AtLineStart(content, i) == i = 1 \/ content[i - 1] \in LineTerminators

\* the positions at which new RegExp(`^${keyName}=`, 'm') matches
KeyMatches(fileContent, keyName) ==
    {i \in 1..Len(fileContent) :
        /\ AtLineStart(fileContent, i)
        /\ StartsWith(SubSeq(fileContent, i, Len(fileContent)),
                      keyName \o << EQ >>)}

\* getKeyValue: the first match of ^keyName=(.*)$ under the 'm' flag
GetKeyValue(fileContent, keyName) ==
    LET at == KeyMatches(fileContent, keyName) IN
    IF at = {} THEN [found |-> FALSE]
    ELSE LET i == CHOOSE a \in at : \A b \in at : a <= b
             rest == SubSeq(fileContent, i + Len(keyName) + 1,
                            Len(fileContent))
             ends == {j \in 1..Len(rest) : rest[j] \in LineTerminators}
             stop == IF ends = {} THEN Len(rest) + 1
                     ELSE CHOOSE a \in ends : \A b \in ends : a <= b
         IN [found |-> TRUE, value |-> SubSeq(rest, 1, stop - 1)]

\* a store that appends the key without looking for it
StoreBaseEnvironmentKeyUnguarded(fileContent, keyName, keyValue) ==
    LET terminated == IF fileContent # EmptyText
                         /\ ~EndsWith(fileContent, << NL >>)
                      THEN fileContent \o << NL >>
                      ELSE fileContent
    IN [written |-> TRUE,
        content |-> terminated \o keyName \o << EQ, Tok(keyValue) >>]

\* a store that appends the key without a line break before it
StoreBaseEnvironmentKeyNoSeparator(fileContent, keyName, keyValue) ==
    IF KeyMatches(fileContent, keyName) # {}
    THEN [written |-> FALSE, content |-> fileContent]
    ELSE [written |-> TRUE,
          content |-> fileContent \o keyName \o << EQ, Tok(keyValue) >>]

\* storeBaseEnvironmentKey from the content read to the content written
StoreBaseEnvironmentKey(fileContent, keyName, keyValue) ==
    IF KeyMatches(fileContent, keyName) # {}
    THEN [written |-> FALSE, content |-> fileContent]
    ELSE LET terminated == IF fileContent # EmptyText
                              /\ ~EndsWith(fileContent, << NL >>)
                           THEN fileContent \o << NL >>
                           ELSE fileContent
         IN [written |-> TRUE,
             content |-> terminated \o keyName \o << EQ, Tok(keyValue) >>]

\* the keyName argument of the calls
KeyName == Str(<< "A", "B" >>)

\* generateBase64SecretKey, resolveFilePath, and ensureFileExists (which
\* opens the file in append mode: a missing file becomes an empty one)
StoreBegin(p) ==
    /\ store[p].pc = "idle"
    /\ Len(storesDone) < MaxStores
    /\ LET secretKey == GenerateBase64SecretKey(SECRET_KEY, entropy) IN
       IF ~secretKey.ok \/ ~Truthy(secretKey.value)
       THEN /\ storesDone' = Append(storesDone,
                [outcome |-> "failed", secretKey |-> Null,
                 before |-> baseFile.content, after |-> baseFile.content])
            /\ UNCHANGED <<store, baseFile>>
       ELSE /\ store' = [store EXCEPT ![p] =
                [pc |-> "read", secretKey |-> secretKey.value,
                 before |-> baseFile.content, fileContent |-> EmptyText]]
            /\ baseFile' = [baseFile EXCEPT !.exists = TRUE]
            /\ UNCHANGED storesDone
    /\ entropy' = entropy + 1
    /\ UNCHANGED <<handler, gen, svc, dm, file, selectors, run, runsDone>>

\* AsyncFileManager.readFile of the base file
StoreRead(p) ==
    /\ store[p].pc = "read"
    /\ store' = [store EXCEPT ![p].pc = "decide",
                              ![p].fileContent = baseFile.content]
    /\ UNCHANGED <<handler, gen, entropy, svc, dm, file, selectors, run, runsDone,
                   baseFile, storesDone>>

\* the test for the key and, when it is absent, the write of the file
StoreFinish(p) ==
    /\ store[p].pc = "decide"
    /\ LET r == StoreBaseEnvironmentKey(store[p].fileContent, KeyName,
                                        store[p].secretKey)
       IN /\ baseFile' = IF r.written
                         THEN [baseFile EXCEPT !.content = r.content]
                         ELSE baseFile
          /\ storesDone' = Append(storesDone,
                [outcome |-> IF r.written THEN "stored" ELSE "kept",
                 secretKey |-> store[p].secretKey,
                 before |-> store[p].before,
                 after |-> baseFile'.content])
    /\ store' = [store EXCEPT ![p] = StoreIdle[p]]
    /\ UNCHANGED <<handler, gen, entropy, svc, dm, file, selectors, run, runsDone>>

\* a key stored by an earlier session
OldKey == Base64Encode(RandomBytes(SECRET_KEY, 600))

BaseLinePool ==
    { Str(<< "C", "=", "1" >>),
      Str(<< "A", "B", "C", "=", "1" >>),
      Str(<< " ", "A", "B", "=", "1" >>),
      KeyName \o << EQ, Tok(OldKey) >> }

\* base files: lines of the pool, with or without a final line break, in
\* which the key has at most one line (the manager never adds a second)
BaseFiles ==
    { f \in { [exists |-> TRUE, content |-> Join(ls, NL) \o tail] :
                 ls \in SeqsUpTo(BaseLinePool, MaxBaseLines),
                 tail \in {<< >>, << NL >>} } :
        Cardinality(KeyMatches(f.content, KeyName)) <= 1 }
    \cup {BaseAbsent}

InitKey ==
    /\ entropy = 0
    /\ svc = SvcIdle
    /\ dm = DmIdle
    /\ file = EmptyText
    /\ selectors = << >>
    /\ run = [p \in Procs |-> RunIdle]
    /\ runsDone = << >>
    /\ baseFile \in BaseFiles
    /\ store = StoreIdle
    /\ storesDone = << >>
    /\ gen = GenIdle
    /\ handler = HandlerIdle

\* calls one after the other
NextKey ==
    \/ StoreBegin(1)
    \/ StoreRead(1)
    \/ StoreFinish(1)

SpecKey == InitKey /\ [][NextKey]_vars

(***************************************************************************)
(* Properties of the rewrite (SpecEnv)                                     *)
(***************************************************************************)
FileLines(content) == Split(content, NL)

MemberNames(t) ==
    {t[k].fld : k \in {j \in 1..Len(t) : IsFld(t[j])}}

\* the text of a JSON object that holds salt, iv and cipherText
HoldsEnvelope(v) ==
    IsObjectText(v) /\ {"salt", "iv", "cipherText"} \subseteq MemberNames(v)

IsEnvelopeLine(line, key) ==
    /\ StartsWith(line, key \o << EQ >>)
    /\ HoldsEnvelope(SubSeq(line, Len(key) + 2, Len(line)))

TargetKeys(e) == {e.targets[i].key : i \in 1..Len(e.targets)}

Finished == {runsDone[i] : i \in 1..Len(runsDone)}

\* C1: when the rewrite is run a second time on the same file with the
\* same selectors, the second run encrypts zero variables and leaves the
\* content the first run wrote.
IdempotentRewrite ==
    (/\ Len(runsDone) >= 2
     /\ runsDone[1].outcome = "done"
     /\ runsDone[2].outcome = "done")
    => /\ runsDone[2].encryptedCount = 0
       /\ runsDone[2].after = runsDone[1].after

\* every selector of the run names a variable of the file it read
SelectorsAreKeys(e) ==
    /\ e.selectors # << >>
    /\ \A k \in 1..Len(e.selectors) :
          HasKey(ExtractEnvironmentVariables(FileLines(e.before)),
                 e.selectors[k])

\* C2: when the selectors name a subset of the file's variables, every
\* line of a variable that is not selected is written back with its text
\* at its position, and every line of a selected variable is replaced by
\* KEY=<JSON envelope>.
SelectiveTargeting ==
    \A e \in Finished :
        (e.outcome = "done" /\ SelectorsAreKeys(e)) =>
            LET b == FileLines(e.before)
                a == FileLines(e.after)
            IN \A i \in 1..Len(b) :
                  LET pv == ParseEnvironmentLine(b[i]) IN
                  pv # Null =>
                     /\ i <= Len(a)
                     /\ IF pv.key \in TargetKeys(e)
                        THEN IsEnvelopeLine(a[i], pv.key)
                        ELSE a[i] = b[i]

\* C3: a target whose value is already an envelope is never passed to
\* EncryptionService.encrypt, and the lines of its variable are left as
\* they were.
NoDoubleEncryption ==
    /\ \A p \in Procs : \A k \in 1..Len(run[p].calls) :
          ~HoldsEnvelope(run[p].calls[k].value)
    /\ \A e \in Finished :
          /\ \A k \in 1..Len(e.calls) : ~HoldsEnvelope(e.calls[k].value)
          /\ \A t \in 1..e.processed :
                HoldsEnvelope(e.targets[t].value) =>
                   LET b == FileLines(e.before)
                       a == FileLines(e.after)
                   IN \A i \in 1..Len(b) :
                         LET pv == ParseEnvironmentLine(b[i]) IN
                         (pv # Null /\ pv.key = e.targets[t].key)
                            => (i <= Len(a) /\ a[i] = b[i])

\* a finished run that skipped an envelope and encrypted another target
NoDoubleEncryptionWitness ==
    \E e \in Finished :
        /\ e.outcome = "done"
        /\ e.encryptedCount > 0
        /\ \E t \in 1..Len(e.targets) : HoldsEnvelope(e.targets[t].value)

\* C4: the file is written exactly once, after every target has been
\* handled; if encrypting a target fails the call fails and the file is
\* never written, whatever was already encrypted in memory.
AllOrNothingRewrite ==
    /\ \A p \in Procs :
          run[p].pc = "encrypting" =>
             (file = run[p].before /\ run[p].writes = 0)
    /\ \A e \in Finished :
          /\ e.outcome = "failed" => (e.writes = 0 /\ e.after = e.before)
          /\ e.outcome = "done" =>
                (e.writes = 1 /\ e.processed = Len(e.targets))

\* a run failed on a target after an earlier target was encrypted
AllOrNothingRewriteWitness ==
    \E e \in Finished :
        /\ e.outcome = "failed"
        /\ e.encryptedCount > 0
        /\ e.after = e.before

(***************************************************************************)
(* Properties of EncryptionService (SpecCrypto)                            *)
(***************************************************************************)
Opened == svc.phase = "opened"

\* the envelope handed to decrypt came from encrypt (altered or not)
FromEncrypt == svc.alt.field # "text"

\* C6 as stated: for every plaintext p and passphrase k, decrypting the JSON
\* text of encrypt(p, k) with k returns p.
RoundTrip ==
    (Opened /\ svc.alt = NoAlteration /\ svc.dpass = svc.pass)
    => (svc.res.ok /\ svc.res.value = svc.plain)

\* the plaintext is well-formed text (no unpaired surrogate) that does not
\* begin with U+FEFF; every printable string is of this kind
WellFormedPlaintext(p) ==
    /\ \A i \in 1..Len(p) : p[i] # Ch("HS")
    /\ p = << >> \/ p[1] # Ch("BOM")

\* C6: for every plaintext p that is well-formed Unicode text not beginning
\* with U+FEFF (in particular every printable string) and every passphrase
\* k, decrypting the JSON text of encrypt(p, k) with k returns exactly p.
RoundTripWellFormed ==
    (/\ Opened
     /\ svc.alt = NoAlteration
     /\ svc.dpass = svc.pass
     /\ WellFormedPlaintext(svc.plain))
    => (svc.res.ok /\ svc.res.value = svc.plain)

\* a two-character plaintext with U+FEFF inside came back unchanged
RoundTripWellFormedWitness ==
    /\ Opened
    /\ svc.alt = NoAlteration
    /\ svc.dpass = svc.pass
    /\ svc.plain = << Ch("a"), Ch("BOM") >>
    /\ svc.res.ok
    /\ svc.res.value = svc.plain

\* C7 as stated: with a different passphrase, or with the stored iv or
\* cipherText altered in any way, decrypt fails with DecryptionFailed and
\* returns no plaintext.
TamperDetectionAnyAlteration ==
    (/\ Opened
     /\ FromEncrypt
     /\ \/ svc.dpass # svc.pass
        \/ svc.alt.field \in {"iv", "cipherText"})
    => (~svc.res.ok /\ IsDecryptionFailed(svc.res.error))

\* C7: with a different passphrase, or with the stored iv or cipherText
\* altered so that it decodes to other bytes, decrypt fails with
\* DecryptionFailed; decrypt returns a plaintext only under the passphrase
\* of encrypt and with salt, iv and cipherText decoding to the bytes that
\* encrypt produced.
TamperDetection ==
    /\ (/\ Opened
        /\ FromEncrypt
        /\ \/ svc.dpass # svc.pass
           \/ (svc.alt.field \in {"iv", "cipherText"}
               /\ svc.alt.how = "bytes"))
       => (~svc.res.ok /\ IsDecryptionFailed(svc.res.error))
    /\ (Opened /\ FromEncrypt /\ svc.res.ok)
       => (svc.dpass = svc.pass /\ svc.alt.how # "bytes")

\* the right passphrase is refused once the cipherText bytes were changed
TamperDetectionWitness ==
    /\ Opened
    /\ svc.alt = [field |-> "cipherText", how |-> "bytes"]
    /\ svc.dpass = svc.pass
    /\ svc.plain # << >>
    /\ ~svc.res.ok
    /\ svc.res.error = "OperationError"

\* C8: an empty text, a text that is not JSON, or a JSON object in which
\* salt, iv or cipherText is missing or empty is rejected as a malformed
\* envelope before any key derivation or decryption is started.
MalformedEnvelopeRejection ==
    (Opened /\ svc.alt.how = "malformed")
    => /\ ~svc.res.ok
       /\ IsMalformedEnvelope(svc.res.error)
       /\ svc.res.steps = << "parse" >>

\* an object whose cipherText is the empty string was rejected
MalformedEnvelopeRejectionWitness ==
    /\ Opened
    /\ svc.alt.how = "malformed"
    /\ IsObjectText(svc.text)
    /\ MemberNames(svc.text) = {"salt", "iv", "cipherText"}
    /\ MemberOf(svc.text, "cipherText") = EmptyString
    /\ svc.res.error = "Missing required properties in encryption parameters."

(***************************************************************************)
(* Properties of decryptMultipleKeys (SpecMulti)                           *)
(***************************************************************************)
\* the decrypts of the call, in the order they completed, by how they ended
EndedAs(k) == dm.tasks[dm.order[k]].pc

\* C9: if the decryption of any entry fails, the call fails and hands the
\* caller no plaintext of any entry, also when other entries were
\* decrypted before or after the failure.
DecryptMultipleAllOrNothing ==
    /\ (\E i \in 1..Len(dm.tasks) : dm.tasks[i].pc = "rejected")
       => (dm.outcome = "rejected" /\ dm.result = Null)
    /\ (dm.outcome # "pending"
        /\ \E i \in 1..Len(dm.inputs) :
              ~Decrypt(dm.inputs[i], dm.secretKey, TRUE).ok)
       => (dm.outcome = "rejected" /\ dm.result = Null)
    /\ dm.outcome = "fulfilled"
       => \A i \in 1..Len(dm.tasks) : dm.tasks[i].pc = "resolved"

\* a call that failed although decrypts completed before and after the
\* failing one
DecryptMultipleAllOrNothingWitness ==
    /\ dm.outcome = "rejected"
    /\ \E a, b, c \in 1..Len(dm.order) :
          /\ a < b /\ b < c
          /\ EndedAs(a) = "resolved"
          /\ EndedAs(b) = "rejected"
          /\ EndedAs(c) = "resolved"

\* C10: when every entry decrypts, element i of the result is what
\* decrypting input element i gives, for every i, whatever the order in
\* which the decrypts completed.
DecryptMultiplePreservesOrder ==
    dm.outcome = "fulfilled" =>
        /\ Len(dm.result) = Len(dm.inputs)
        /\ \A i \in 1..Len(dm.inputs) :
              LET r == Decrypt(dm.inputs[i], dm.secretKey, TRUE) IN
              r.ok /\ dm.result[i] = r.value

\* a fulfilled call whose last input completed first, with different
\* plaintexts at both ends
DecryptMultiplePreservesOrderWitness ==
    /\ dm.outcome = "fulfilled"
    /\ Len(dm.inputs) >= 2
    /\ dm.order[1] = Len(dm.inputs)
    /\ dm.result[1] # dm.result[Len(dm.inputs)]

(***************************************************************************)
(* Properties of the secret key storage (SpecKey)                          *)
(***************************************************************************)
\* C5: after any sequence of generateAndStoreSecretKey calls for one key
\* name on one base file, the file holds exactly one line for the key, with
\* the value the first call stored; every later call returns without error
\* and leaves the content of the file as it was.
SecretKeyNeverOverwritten ==
    \A n \in 1..Len(storesDone) :
        LET e == storesDone[n]
            first == storesDone[1]
        IN /\ e.outcome \in {"stored", "kept"}
           /\ Cardinality(KeyMatches(e.after, KeyName)) = 1
           /\ GetKeyValue(e.after, KeyName) = GetKeyValue(first.after, KeyName)
           /\ first.outcome = "stored" =>
                 GetKeyValue(e.after, KeyName)
                    = [found |-> TRUE, value |-> << Tok(first.secretKey) >>]
           /\ n >= 2 => /\ e.outcome = "kept"
                        /\ e.after = e.before
                        /\ e.after = first.after

\* the first call stored its key after an unterminated last line, and a
\* later call with another key has returned
SecretKeyNeverOverwrittenWitness ==
    /\ Len(storesDone) >= 2
    /\ storesDone[1].outcome = "stored"
    /\ storesDone[1].before # EmptyText
    /\ ~EndsWith(storesDone[1].before, << NL >>)
    /\ storesDone[Len(storesDone)].outcome = "kept"
    /\ storesDone[Len(storesDone)].secretKey # storesDone[1].secretKey

(***************************************************************************)
(* Properties of the encrypt calls made by the rewrite (SpecEnv)           *)
(***************************************************************************)
RECURSIVE CallsOf(_)
CallsOf(entries) ==
    IF entries = << >> THEN << >>
    ELSE Head(entries).calls \o CallsOf(Tail(entries))

\* every call of EncryptionService.encrypt made so far that returned
EncryptCalls ==
    SelectSeq(CallsOf(runsDone) \o run[1].calls \o run[2].calls,
              LAMBDA c : c.envelope # Null)

\* the AES-GCM key a call encrypted under
KeyOfCall(c) == DeriveKeyWithArgon2(c.secretKey, c.envelope.salt, TRUE).value

\* C11: every encrypt call generates a new salt and a new IV: two calls,
\* also with the same plaintext and passphrase, return envelopes with
\* different salt and different iv, and no (key, iv) pair serves two
\* encryptions.
FreshSaltAndIv ==
    \A i, j \in 1..Len(EncryptCalls) :
        i < j =>
           LET a == EncryptCalls[i]
               b == EncryptCalls[j]
           IN /\ a.envelope.salt # b.envelope.salt
              /\ a.envelope.iv # b.envelope.iv
              /\ << KeyOfCall(a), Base64Decode(a.envelope.iv) >>
                    # << KeyOfCall(b), Base64Decode(b.envelope.iv) >>

\* two calls with the same plaintext and the same passphrase returned
FreshSaltAndIvWitness ==
    \E i, j \in 1..Len(EncryptCalls) :
        /\ i < j
        /\ EncryptCalls[i].value = EncryptCalls[j].value
        /\ EncryptCalls[i].secretKey = EncryptCalls[j].secretKey
        /\ EncryptCalls[i].envelope.cipherText
              # EncryptCalls[j].envelope.cipherText

\* every call of EncryptionService.encrypt started so far
StartedCalls == CallsOf(runsDone) \o run[1].calls \o run[2].calls

\* the secret key held by the environment under a variable name (the text
\* stored by generateAndStoreSecretKey), as a passphrase
SecretKeyStoredUnder(name) == "value of " \o name

\* C12: the passphrase handed to EncryptionService.encrypt is the secret
\* key value held under the variable named by secretKeyVariable, not the
\* name of the variable.
PassphraseIsSecretKeyValue ==
    \A i \in 1..Len(StartedCalls) :
        StartedCalls[i].secretKey = SecretKeyStoredUnder(SecretKeyVariable)

(***************************************************************************)
(* Selector resolution: the read of the file up to                         *)
(* resolveVariablesToEncrypt, on files with repeated keys, indented lines  *)
(* and values that are also key names                                      *)
(***************************************************************************)
ResolveLinePool ==
    { Str(<< "A", "=", "1" >>),
      Str(<< "B", "=", "1" >>),
      Str(<< "C", "=", "A" >>),
      Str(<< "A", "=", "2" >>),
      Str(<< " ", "B", "=", "2" >>),
      Str(<< "#", "x" >>) }

ResolveFiles ==
    {Join(ls, NL) : ls \in SeqsUpTo(ResolveLinePool, MaxResolveLines) \ {<< >>}}

ResolveSelectors ==
    SeqsUpTo({Str(<< "A" >>), Str(<< "B" >>), Str(<< "1" >>),
              Str(<< "2" >>), Str(<< "x" >>)}, MaxSelectors)

InitResolve ==
    /\ entropy = 0
    /\ svc = SvcIdle
    /\ dm = DmIdle
    /\ file \in ResolveFiles
    /\ selectors \in ResolveSelectors
    /\ run = [p \in Procs |-> RunIdle]
    /\ runsDone = << >>
    /\ baseFile = BaseAbsent
    /\ store = StoreIdle
    /\ storesDone = << >>
    /\ gen = GenIdle
    /\ handler = HandlerIdle

NextResolve == EnvRead(1)

SpecResolve == InitResolve /\ [][NextResolve]_vars

\* the variables of a file: the keys assigned on its lines, each holding
\* the value of its last assignment and placed where it is first assigned
AssignsKey(lines, i, k) ==
    LET pv == ParseEnvironmentLine(lines[i]) IN pv # Null /\ pv.key = k

KeysOf(lines) ==
    {ParseEnvironmentLine(lines[i]).key :
        i \in {j \in 1..Len(lines) : ParseEnvironmentLine(lines[j]) # Null}}

ValueOf(lines, k) ==
    ParseEnvironmentLine(
        lines[CHOOSE i \in 1..Len(lines) :
                 /\ AssignsKey(lines, i, k)
                 /\ \A j \in (i + 1)..Len(lines) : ~AssignsKey(lines, j, k)]
    ).value

PlaceOf(lines, k) ==
    CHOOSE i \in 1..Len(lines) :
        /\ AssignsKey(lines, i, k)
        /\ \A j \in 1..(i - 1) : ~AssignsKey(lines, j, k)

\* what a selector stands for: the key of that name, else the first
\* variable of the file holding that value, else nothing
SelectedBy(lines, s) ==
    IF s \in KeysOf(lines) THEN {s}
    ELSE LET holders == {k \in KeysOf(lines) : ValueOf(lines, k) = s} IN
         {k \in holders :
             \A h \in holders : PlaceOf(lines, k) <= PlaceOf(lines, h)}

TargetsRead(p) == {run[p].targets[i] : i \in 1..Len(run[p].targets)}

\* C13: each selector is looked up as a key name first; only when no key
\* has that name is it matched against the values, and then exactly one
\* variable is selected: the first variable of the file holding that value.
SelectorResolution ==
    (run[1].pc = "encrypting" /\ selectors # << >>) =>
        LET lines == FileLines(run[1].before) IN
        /\ {t.key : t \in TargetsRead(1)}
              = UNION {SelectedBy(lines, selectors[i]) :
                          i \in 1..Len(selectors)}
        /\ \A t \in TargetsRead(1) : t.value = ValueOf(lines, t.key)
        /\ \A i \in 1..Len(selectors) :
              Cardinality(SelectedBy(lines, selectors[i])) <= 1

\* B=1 precedes A=1 and the selector 1, no key, picked B alone
SelectorResolutionWitness ==
    /\ run[1].pc = "encrypting"
    /\ selectors = << Str(<< "1" >>) >>
    /\ FileLines(run[1].before)
          = << Str(<< "B", "=", "1" >>), Str(<< "A", "=", "1" >>) >>
    /\ {t.key : t \in TargetsRead(1)} = {Str(<< "B" >>)}

(***************************************************************************)
(* Runs whose selectors are values held by variables of the file, as in    *)
(* the test 'Encrypt Credentials'                                          *)
(***************************************************************************)
ByValueLinePool ==
    { Str(<< "A", "=", "1" >>),
      Str(<< "B", "=", "1" >>),
      Str(<< "B", "=", "2" >>),
      Str(<< " ", "B", "=", "2" >>),
      Str(<< "C", "=", "A" >>) }

ByValueFiles ==
    {Join(ls, NL) : ls \in SeqsUpTo(ByValueLinePool, MaxByValueLines) \ {<< >>}}

ByValueSelectors ==
    SeqsUpTo({Str(<< "1" >>), Str(<< "2" >>), Str(<< "A" >>)}, MaxSelectors)
       \ {<< >>}

InitByValue ==
    /\ entropy = 0
    /\ svc = SvcIdle
    /\ dm = DmIdle
    /\ file \in ByValueFiles
    /\ selectors \in ByValueSelectors
    /\ run = [p \in Procs |-> RunIdle]
    /\ runsDone = << >>
    /\ baseFile = BaseAbsent
    /\ store = StoreIdle
    /\ storesDone = << >>
    /\ gen = GenIdle
    /\ handler = HandlerIdle

SpecByValue == InitByValue /\ [][NextEnv]_vars

HoldersOf(lines, s) == {k \in KeysOf(lines) : ValueOf(lines, k) = s}

\* every selector of the run is the value of some variable of the file
SelectorsAreValues(e) ==
    \A i \in 1..Len(e.selectors) :
        HoldersOf(FileLines(e.before), e.selectors[i]) # {}

\* the variables whose value is one of the selectors
SelectedByValue(e) ==
    UNION {HoldersOf(FileLines(e.before), e.selectors[i]) :
              i \in 1..Len(e.selectors)}

\* a failed call is one whose read or whose last encrypt failed
FailedOnlyOnFailure(e) ==
    e.outcome = "failed" =>
        \/ e.calls = << >>
        \/ e.calls[Len(e.calls)].envelope = Null

\* C14: when the selectors are the current plaintext values of
\* several variables of the file, the call succeeds and afterwards each of
\* those variables holds an envelope.
EncryptsCredentialsByValue ==
    \A e \in Finished :
        /\ FailedOnlyOnFailure(e)
        /\ (e.outcome = "done" /\ SelectorsAreValues(e)) =>
              \A k \in SelectedByValue(e) :
                 HoldsEnvelope(ValueOf(FileLines(e.after), k))

(***************************************************************************)
(* Properties of the target set and of the lines written back (SpecEnv,    *)
(* SpecLines)                                                              *)
(***************************************************************************)
\* the selectors of a run that match neither a key nor a value of the file
Unresolved(e) ==
    {e.selectors[i] : i \in {j \in 1..Len(e.selectors) :
        SelectedBy(FileLines(e.before), e.selectors[j]) = {}}}

\* the run read the file (it did not fail on the read)
ReadTheFile(e) == e.outcome = "done" \/ e.calls # << >>

\* C15: a selector that matches neither a key nor a value of the file is
\* reported by a logged warning, selects nothing and does not fail the
\* run: the other selectors are processed and the file is written.
UnresolvedSelectorsWarned ==
    \A e \in Finished :
        (ReadTheFile(e) /\ e.selectors # << >>) =>
            /\ \A s \in Unresolved(e) :
                  \E i \in 1..Len(e.warnings) : e.warnings[i] = s
            /\ TargetKeys(e)
                  = UNION {SelectedBy(FileLines(e.before), e.selectors[i]) :
                              i \in 1..Len(e.selectors)}
            /\ FailedOnlyOnFailure(e)
            /\ e.outcome = "done" => e.writes = 1

\* C16: when the selector list is omitted or empty the target set is the
\* set of all variables parsed from the file, and after a successful run
\* every parsed variable holds an envelope.
AllVariablesEncrypted ==
    \A e \in Finished :
        (ReadTheFile(e) /\ e.selectors = << >>) =>
            /\ TargetKeys(e) = KeysOf(FileLines(e.before))
            /\ \A i \in 1..Len(e.targets) :
                  e.targets[i].value
                     = ValueOf(FileLines(e.before), e.targets[i].key)
            /\ e.outcome = "done" =>
                  \A k \in KeysOf(FileLines(e.before)) :
                     HoldsEnvelope(ValueOf(FileLines(e.after), k))

(***************************************************************************)
(* Runs on files with comments, blank lines and lines that are not         *)
(* assignments                                                             *)
(***************************************************************************)
CommentedLinePool ==
    { Str(<< "A", "=", "1" >>),
      Str(<< "A", "=" >>),
      Str(<< "#", "C", "=", "1" >>),
      Str(<< "#", "x" >>),
      Str(<< "x" >>),
      << >> }

CommentedFiles ==
    {Join(ls, NL) : ls \in SeqsUpTo(CommentedLinePool, MaxLines) \ {<< >>}}

CommentedSelectors ==
    { << >>,
      << Str(<< "A" >>) >>,
      << Str(<< "1" >>) >>,
      << Str(<< "x" >>) >> }

InitLines ==
    /\ entropy = 0
    /\ svc = SvcIdle
    /\ dm = DmIdle
    /\ file \in CommentedFiles
    /\ selectors \in CommentedSelectors
    /\ run = [p \in Procs |-> RunIdle]
    /\ runsDone = << >>
    /\ baseFile = BaseAbsent
    /\ store = StoreIdle
    /\ storesDone = << >>
    /\ gen = GenIdle
    /\ handler = HandlerIdle

SpecLines == InitLines /\ [][NextEnv]_vars

IsBlankLine(line) == Trim(line) = << >>
IsCommentLine(line) == StartsWith(Trim(line), << Ch("#") >>)

\* blank, a comment, or otherwise not a KEY=VALUE assignment
IsNonAssignmentLine(line) ==
    \/ IsBlankLine(line)
    \/ IsCommentLine(line)
    \/ ParseEnvironmentLine(line) = Null

\* C17: every line of the file that is blank, a comment, or otherwise not
\* a KEY=VALUE assignment is written back unchanged and at the same
\* position, whatever the selectors.
NonAssignmentLinesPassThrough ==
    \A e \in Finished :
        e.outcome = "done" =>
            LET before == FileLines(e.before)
                after == FileLines(e.after)
            IN \A i \in 1..Len(before) :
                  IsNonAssignmentLine(before[i]) =>
                      /\ i <= Len(after)
                      /\ after[i] = before[i]

\* C18: each encrypted variable's line is replaced at its original
\* position and no line is appended: the rewritten file has as many lines
\* as the original, in the same order.
InPlaceReplacement ==
    \A e \in Finished :
        e.outcome = "done" =>
            LET before == FileLines(e.before)
                after == FileLines(e.after)
            IN /\ Len(after) = Len(before)
               /\ \A i \in 1..Len(before) :
                     \/ after[i] = before[i]
                     \/ \E k \in TargetKeys(e) :
                           /\ AssignsKey(before, i, k)
                           /\ IsEnvelopeLine(after[i], k)

(***************************************************************************)
(* Overlapping invocations on one file: two workers (fullyParallel), each  *)
(* with its own selector list, interleaved at every await                  *)
(***************************************************************************)
OverlapLinePool ==
    { Str(<< "A", "=", "1" >>),
      Str(<< "B", "=", "2" >>) }

OverlapFiles ==
    {Join(ls, NL) : ls \in SeqsUpTo(OverlapLinePool, MaxLines) \ {<< >>}}

OverlapSelectors ==
    { << >>, << Str(<< "A" >>) >>, << Str(<< "B" >>) >> }

InitOverlap ==
    /\ entropy = 0
    /\ svc = SvcIdle
    /\ dm = DmIdle
    /\ file \in OverlapFiles
    /\ selectors = << >>
    /\ run = [p \in Procs |-> RunIdle]
    /\ runsDone = << >>
    /\ baseFile = BaseAbsent
    /\ store = StoreIdle
    /\ storesDone = << >>
    /\ gen = GenIdle
    /\ handler = HandlerIdle

\* an invocation with a selector list of its own
EnvReadSelecting(p) == \E envVariables \in OverlapSelectors :
                          ReadStep(p, envVariables)

NextOverlap ==
    \E p \in Procs :
        \/ EnvReadSelecting(p)
        \/ EnvReadFail(p)
        \/ \E healthy \in BOOLEAN : EnvEncryptTarget(p, healthy)
        \/ EnvWrite(p)

SpecOverlap == InitOverlap /\ [][NextOverlap]_vars

\* the writes made before the i-th finished invocation ended
WritesBefore(i) ==
    Cardinality({j \in 1..(i - 1) : runsDone[j].outcome = "done"})

\* invocations i and j both wrote, i first, and both had read the file
\* before either wrote
Overlapped(i, j) ==
    /\ i < j
    /\ runsDone[i].outcome = "done"
    /\ runsDone[j].outcome = "done"
    /\ runsDone[j].readAfter <= WritesBefore(i)

LastWrite ==
    CHOOSE j \in 1..Len(runsDone) :
        /\ runsDone[j].outcome = "done"
        /\ \A k \in (j + 1)..Len(runsDone) : runsDone[k].outcome # "done"

\* the content an invocation computes from what it read
ComputedBy(e) == Join(ApplyCalls(FileLines(e.before), e.calls), NL)

\* the lines an invocation put in place of plaintext ones
ReplacementsOf(e) ==
    {e.calls[c].key \o << EQ >> \o StringifyResult(e.calls[c].envelope) :
        c \in {d \in 1..Len(e.calls) : e.calls[d].envelope # Null}}

\* C19: when two invocations on the same file overlap (both read the file
\* before either writes it), the final content of the file is the content
\* computed by the invocation that writes last, and the replacements made
\* by the other invocation are lost.
LastWriterWins ==
    \A i \in 1..Len(runsDone) :
        (WritesDone > 0 /\ Overlapped(i, LastWrite)) =>
            /\ file = ComputedBy(runsDone[LastWrite])
            /\ \A n \in 1..Len(FileLines(file)) :
                  FileLines(file)[n] \notin ReplacementsOf(runsDone[i])

\* A was encrypted by the first writer and B by the second, which had read
\* the file before the first wrote: the file holds B's envelope and A=1
LastWriterWinsWitness ==
    /\ Len(runsDone) = 2
    /\ Overlapped(1, 2)
    /\ runsDone[1].selectors = << Str(<< "A" >>) >>
    /\ runsDone[2].selectors = << Str(<< "B" >>) >>
    /\ runsDone[1].encryptedCount = 1
    /\ runsDone[2].encryptedCount = 1
    /\ runsDone[1].after # runsDone[1].before
    /\ FileLines(file)[1] = Str(<< "A", "=", "1" >>)
    /\ IsEnvelopeLine(FileLines(file)[2], Str(<< "B" >>))

(***************************************************************************)
(* Calls of the generators of SecureKeyGenerator                           *)
(***************************************************************************)
InitGen ==
    /\ entropy = 0
    /\ svc = SvcIdle
    /\ dm = DmIdle
    /\ file = EmptyText
    /\ selectors = << >>
    /\ run = [p \in Procs |-> RunIdle]
    /\ runsDone = << >>
    /\ baseFile = BaseAbsent
    /\ store = StoreIdle
    /\ storesDone = << >>
    /\ gen = GenIdle
    /\ handler = HandlerIdle

NextGen ==
    \E name \in Generators :
        \/ \E length \in GenLengths : GeneratorCall(name, length)
        \/ GeneratorCallByDefault(name)

SpecGen == InitGen /\ [][NextGen]_vars

IsInvalidLength(r) ==
    ~r.ok /\ r.error = "Length must be greater than zero."

\* C20: each generator fails with InvalidLength when called with
\* length <= 0, before any random bytes are drawn.
LengthChecked ==
    (gen.name \in Generators /\ gen.length <= 0) =>
        /\ IsInvalidLength(gen.result)
        /\ entropy = gen.before

\* generateBufferSalt(0) failed after earlier calls had drawn bytes
LengthCheckedWitness ==
    /\ gen.name = "generateBufferSalt"
    /\ gen.length = 0
    /\ IsInvalidLength(gen.result)
    /\ gen.before > 0
    /\ entropy = gen.before

(***************************************************************************)
(* Failures of the rewrite (SpecEnv)                                       *)
(***************************************************************************)
\* C21: when reading the environment file fails, the call fails with that
\* error, EncryptionService.encrypt is never called and the file is never
\* written.
ReadFailureIsFatal ==
    \A e \in Finished :
        e.error = ReadFailure =>
            /\ e.outcome = "failed"
            /\ e.calls = << >>
            /\ e.encryptedCount = 0
            /\ e.writes = 0
            /\ e.after = e.before

\* a call on a file with a plaintext variable failed on the read and the
\* file still holds what it held
ReadFailureIsFatalWitness ==
    \E e \in Finished :
        /\ e.error = ReadFailure
        /\ e.outcome = "failed"
        /\ KeysOf(FileLines(e.before)) # {}
        /\ file = e.before

(***************************************************************************)
(* Log messages of encryptAndUpdateEnvironmentVariables.  What an          *)
(* invocation logs is determined by the file it read, its selectors and    *)
(* the point where it failed, so the log is computed from the history of   *)
(* the invocation.  A message is a record: its level, the method that      *)
(* logged it, its fixed text, the key it names (`about`) and the text it   *)
(* quotes from a value (`excerpt`).  Messages with level "error" go        *)
(* through ErrorHandler.captureError.                                      *)
(***************************************************************************)
LogRecord(level, source, text, about, excerpt) ==
    [level |-> level, source |-> source, text |-> text, about |-> about,
     excerpt |-> excerpt]

\* the token named by the SyntaxError of JSON.parse for a text in braces
\* that is not an object: "Unexpected token x ..."
JsonParseErrorToken(text) ==
    LET inner == SubSeq(text, 2, Len(text) - 1)
        bad == {i \in 1..Len(inner) :
                   IF i % 2 = 1 THEN ~IsFld(inner[i])
                   ELSE inner[i] # Ch(",")}
    IN IF bad = {} THEN << Ch("}") >>
       ELSE << inner[CHOOSE i \in bad : \A j \in bad : i <= j] >>

\* findEnvironmentVariableByKey: logger.info for a match by value
RECURSIVE ResolveLog(_, _)
ResolveLog(allEnvVariables, envVariables) ==
    IF envVariables = << >> THEN << >>
    ELSE LET lookupValue == Head(envVariables)
             found == FindEnvironmentVariableByKey(allEnvVariables,
                                                   lookupValue)
             byKey == /\ HasKey(allEnvVariables, lookupValue)
                      /\ Lookup(allEnvVariables, lookupValue) # << >>
         IN (IF ~byKey /\ found # << >>
             THEN << LogRecord("info", "findEnvironmentVariableByKey",
                               "Environment variable key found",
                               found[1].key, << >>) >>
             ELSE << >>)
            \o (IF IsFalsyObject(found)
                THEN << LogRecord("warn", "resolveVariablesToEncrypt",
                                  "not found in the file", << >>,
                                  lookupValue) >>
                ELSE << >>)
            \o ResolveLog(allEnvVariables, Tail(envVariables))

\* isAlreadyEncrypted: the warning for an empty value, the captured
\* SyntaxError for a value in braces that JSON.parse rejects
IsAlreadyEncryptedLog(value) ==
    IF value = << >>
    THEN << LogRecord("warn", "isAlreadyEncrypted",
                      "Environment variable cannot be null or empty.",
                      << >>, << >>) >>
    ELSE LET trimmedValue == Trim(value) IN
         IF /\ StartsWith(trimmedValue, << Ch("{") >>)
            /\ EndsWith(trimmedValue, << Ch("}") >>)
            /\ JsonParse(value).kind = "error"
         THEN << LogRecord("error", "isAlreadyEncrypted", "SyntaxError",
                           << >>, JsonParseErrorToken(trimmedValue)) >>
         ELSE << >>

\* the error of a failed key derivation, captured on its way up
EncryptFailureLog(error) ==
    [i \in 1..5 |->
        LogRecord("error",
                  << "argon2Hashing", "deriveKeyWithArgon2", "encrypt",
                     "encryptVariableValuesInFileLines",
                     "encryptAndUpdateEnvironmentVariables" >>[i],
                  error, << >>, << >>)]

\* one iteration of the loop of encryptVariableValuesInFileLines
TargetLog(key, value, healthy) ==
    IF value = << >> THEN << >>
    ELSE IsAlreadyEncryptedLog(Trim(value))
         \o (IF IsAlreadyEncrypted(Trim(value))
             THEN << LogRecord("info", "encryptVariableValuesInFileLines",
                               "Skipping encryption: already encrypted.",
                               key, << >>) >>
             ELSE IF ~healthy
             THEN EncryptFailureLog(
                     DeriveKeyWithArgon2(SecretKeyVariable, << >>,
                                         FALSE).error)
             ELSE << >>)

RECURSIVE TargetsLog(_, _, _)
TargetsLog(targets, n, failing) ==
    IF n = 0 THEN << >>
    ELSE TargetsLog(targets, n - 1, failing)
         \o TargetLog(targets[n].key, targets[n].value, n # failing)

\* the error of a failed read, captured on its way up
ReadFailureLog ==
    [i \in 1..3 |->
        LogRecord("error",
                  << "readFile", "readEnvironmentFileAsLines",
                     "encryptAndUpdateEnvironmentVariables" >>[i],
                  ReadFailure, << >>, << >>)]

\* the messages of an invocation on a file, failing at the target of
\* index `failing` (0: no failure)
InvocationLog(content, envVariables, failing) ==
    LET allEnvVariables == ExtractEnvironmentVariables(Split(content, NL))
        targets == ResolveVariablesToEncrypt(allEnvVariables, envVariables)
        last == IF failing = 0 THEN Len(targets) ELSE failing
        encryptedCount ==
            Cardinality({i \in 1..Len(targets) :
                /\ targets[i].value # << >>
                /\ ~IsAlreadyEncrypted(Trim(targets[i].value))})
    IN << LogRecord("debug", "readFile", "Successfully loaded file",
                    << >>, << >>) >>
       \o ResolveLog(allEnvVariables, envVariables)
       \o TargetsLog(targets, last, failing)
       \o (IF failing # 0 THEN << >>
           ELSE << LogRecord("debug", "writeFile",
                             "Successfully wrote file", << >>, << >>) >>
                \o (IF encryptedCount > 0
                    THEN << LogRecord("info", "logEncryptionSuccess",
                                      "Encryption complete.", << >>,
                                      << >>) >>
                    ELSE << >>))

\* the messages of a finished invocation
RunLog(e) ==
    IF e.error = ReadFailure THEN ReadFailureLog
    ELSE InvocationLog(e.before, e.selectors,
                       IF e.outcome = "failed" THEN e.processed + 1 ELSE 0)

\* ErrorHandler.createCacheKey: source, category and the first characters
\* of the message, which hold the token the SyntaxError names
CacheKeyOf(m) == << m.source, m.text, m.excerpt >>

\* the messages written when the cache of ErrorHandler is empty at the
\* start: a captured error is written unless one with its key was written
\* before
Written(log) ==
    LET kept == {i \in 1..Len(log) :
                    \/ log[i].level # "error"
                    \/ \A j \in 1..(i - 1) :
                          \/ log[j].level # "error"
                          \/ CacheKeyOf(log[j]) # CacheKeyOf(log[i])}
        nth(n) == CHOOSE i \in kept :
                     Cardinality({j \in kept : j <= i}) = n
    IN [n \in 1..Cardinality(kept) |-> log[nth(n)]]

\* the plaintext values a twin of a file may hold in place of one
TwinValues ==
    { Str(<< "1" >>), Str(<< "2" >>), Str(<< "{", "x", "}" >>) }

\* the file with value v on every line that assigns key k
WithValue(lines, k, v) ==
    [i \in 1..Len(lines) |->
        IF AssignsKey(lines, i, k)
        THEN LET eq == CHOOSE n \in 1..Len(lines[i]) :
                          /\ lines[i][n] = EQ
                          /\ \A m \in 1..(n - 1) : lines[i][m] # EQ
             IN SubSeq(lines[i], 1, eq) \o v
        ELSE lines[i]]

\* the files that differ from the one the invocation read only in the
\* plaintext value of a targeted key, the targets being the same keys
Twins(e) ==
    LET lines == FileLines(e.before)
        KeysFor(content) ==
            LET ts == ResolveVariablesToEncrypt(
                         ExtractEnvironmentVariables(Split(content, NL)),
                         e.selectors)
            IN {ts[i].key : i \in 1..Len(ts)}
    IN {c \in {Join(WithValue(lines, k, v), NL) :
                  k \in {t \in TargetKeys(e) :
                            ~IsAlreadyEncrypted(ValueOf(lines, t))},
                  v \in TwinValues} :
           KeysFor(c) = TargetKeys(e)}

\* C22: no log message emitted during encryptAndUpdateEnvironmentVariables,
\* on success or on failure, quotes text of a variable's plaintext value or
\* of the passphrase, and two runs that differ only in the plaintext values
\* of the targeted keys emit the same log messages.
NoSecretInLogs ==
    Len(runsDone) >= 1 =>
        LET e == runsDone[1] IN
        /\ \A i \in 1..Len(Written(RunLog(e))) :
              Written(RunLog(e))[i].excerpt = << >>
        /\ e.outcome = "done" =>
              \A c \in Twins(e) :
                 Written(InvocationLog(c, e.selectors, 0))
                    = Written(RunLog(e))

(***************************************************************************)
(* ErrorHandler.captureError called again and again (SpecErr)              *)
(***************************************************************************)
InitErr ==
    /\ entropy = 0
    /\ svc = SvcIdle
    /\ dm = DmIdle
    /\ file = EmptyText
    /\ selectors = << >>
    /\ run = [p \in Procs |-> RunIdle]
    /\ runsDone = << >>
    /\ baseFile = BaseAbsent
    /\ store = StoreIdle
    /\ storesDone = << >>
    /\ gen = GenIdle
    /\ handler = HandlerIdle

NextErr ==
    \/ \E error \in ErrorPool, elapsed \in Elapsed : CaptureError(error, elapsed)
    \/ \E count \in NewErrorCounts, elapsed \in Elapsed : CaptureNewErrors(count, elapsed)

SpecErr == InitErr /\ [][NextErr]_vars

\* errors with other cache keys logged after entry i and before entry j
RECURSIVE LoggedBetween(_, _)
LoggedBetween(i, j) ==
    IF i + 1 >= j THEN 0
    ELSE handler.log[i + 1].count + LoggedBetween(i + 1, j)

\* C23 as stated: within 20 minutes captureError logs at most one of the
\* errors that share the same dedup key, whatever other errors are captured
\* in between.  (A logged error is counted once, also when its extra details
\* are written as a second record.)
OneLogPerWindow ==
    \A i, j \in 1..Len(handler.log) :
        (/\ i < j
         /\ handler.log[i].key = handler.log[j].key)
        => handler.log[j].at - handler.log[i].at > CACHE_TTL

\* C23, amended: of the captureError calls made within 20 minutes for errors
\* that share the same dedup key at most one writes to the log, unless at
\* least MAX_CACHE_SIZE errors with other dedup keys were logged in between.
OneLoggedCallPerWindow ==
    \A i, j \in 1..Len(handler.log) :
        (/\ i < j
         /\ handler.log[i].key = handler.log[j].key
         /\ handler.log[j].at - handler.log[i].at <= CACHE_TTL)
        => LoggedBetween(i, j) >= MAX_CACHE_SIZE

\* a call found its key in the cache, exactly CACHE_TTL after it was logged,
\* and wrote nothing
OneLoggedCallPerWindowWitness ==
    /\ handler.last = "duplicate"
    /\ \E i \in 1..Len(handler.log) :
          /\ handler.now - handler.log[i].at = CACHE_TTL
          /\ CacheGet(handler.loggedErrors, handler.log[i].key) = handler.log[i].at

\* the parts of C30
CacheWithinLimit == CacheSize(handler.loggedErrors) <= MAX_CACHE_SIZE

NoExpiredEntry ==
    \A i \in 1..Len(handler.loggedErrors) :
        handler.now - handler.loggedErrors[i].timestamp <= CACHE_TTL

\* what an insertion over the limit removed is no younger than anything it
\* left, and it removed no more than the excess
OldestRemoved ==
    /\ \A r \in handler.evicted :
          \A i \in 1..Len(handler.loggedErrors) :
              r.timestamp <= handler.loggedErrors[i].timestamp
    /\ handler.evicted # {} => CacheSize(handler.loggedErrors) = MAX_CACHE_SIZE

\* C30 as stated: after every captureError call the dedup cache holds at
\* most 1000 entries and none older than 20 minutes; when an insertion would
\* exceed 1000, the entries with the oldest timestamps are the ones removed.
BoundedErrorCache ==
    handler.calls > 0 =>
        /\ CacheWithinLimit
        /\ NoExpiredEntry
        /\ OldestRemoved

\* C30, amended: after every captureError call the dedup cache holds at most
\* 1000 entries, and after every call that logs its error none older than 20
\* minutes; when an insertion would exceed 1000, the entries with the oldest
\* timestamps are the ones removed.
BoundedErrorCacheAfterLogging ==
    handler.calls > 0 =>
        /\ CacheWithinLimit
        /\ handler.last = "logged" => NoExpiredEntry
        /\ OldestRemoved

\* a call logged its error, dropped an expired entry and, over the limit,
\* removed an older entry that had not expired
BoundedErrorCacheAfterLoggingWitness ==
    /\ handler.last = "logged"
    /\ handler.evicted # {}
    /\ \A r \in handler.evicted : handler.now - r.timestamp <= CACHE_TTL
    /\ \E i \in 1..Len(handler.log) :
          /\ handler.now - handler.log[i].at > CACHE_TTL
          /\ ~CacheHas(handler.loggedErrors, handler.log[i].key)
          /\ \A r \in handler.evicted : r.key # handler.log[i].key

(***************************************************************************)
(* The probe for values that are already encrypted (SpecProbe)             *)
(***************************************************************************)
\* values that are not delimited by braces, that are but are no JSON, that
\* are JSON objects without one of the three members, and envelopes
ProbeValuePool ==
    { Str(<< "1" >>),
      Str(<< "{", "1" >>),
      Str(<< "{", "x", "}" >>),
      JsonObject(<< >>),
      JsonObject(<< Fld("salt", StoredEnvelope.salt), Fld("iv", StoredEnvelope.iv) >>),
      JsonObject(<< Fld("salt", StoredEnvelope.salt),
                    Fld("cipherText", StoredEnvelope.cipherText) >>),
      JsonObject(<< Fld("iv", StoredEnvelope.iv),
                    Fld("cipherText", StoredEnvelope.cipherText) >>),
      JsonStringify(StoredEnvelope) }

ProbeLinePool ==
    {Str(<< "A", "=" >>) \o v : v \in ProbeValuePool}
    \cup {Str(<< "B", "=" >>) \o v :
            v \in {Str(<< "1" >>), JsonStringify(StoredEnvelope),
                   JsonObject(<< Fld("salt", StoredEnvelope.salt),
                                 Fld("iv", StoredEnvelope.iv) >>)}}

RECURSIVE ProbeLineLists(_)
ProbeLineLists(n) ==
    IF n = 0 THEN {<< >>}
    ELSE LET shorter == ProbeLineLists(n - 1) IN
         shorter \cup {Append(ls, l) : ls \in shorter, l \in ProbeLinePool}

ProbeFiles == {Join(ls, NL) : ls \in ProbeLineLists(MaxProbeLines) \ {<< >>}}

InitProbe ==
    /\ entropy = 0
    /\ svc = SvcIdle
    /\ dm = DmIdle
    /\ file \in ProbeFiles
    /\ selectors = << >>
    /\ run = [p \in Procs |-> RunIdle]
    /\ runsDone = << >>
    /\ baseFile = BaseAbsent
    /\ store = StoreIdle
    /\ storesDone = << >>
    /\ gen = GenIdle
    /\ handler = HandlerIdle

SpecProbe == InitProbe /\ [][NextEnv]_vars

\* the value parses as a JSON object with all of salt, iv and cipherText
ParsesAsEnvelope(value) ==
    LET parsedData == JsonParse(value) IN
    /\ parsedData.kind = "object"
    /\ {"salt", "iv", "cipherText"} \subseteq DOMAIN parsedData.obj

\* the invocations, finished or under way, with the targets they have dealt with
Probed ==
    {[targets |-> runsDone[i].targets, processed |-> runsDone[i].processed,
      calls |-> runsDone[i].calls, outcome |-> runsDone[i].outcome,
      error |-> runsDone[i].error] : i \in 1..Len(runsDone)}
    \cup {[targets |-> run[p].targets, processed |-> run[p].idx - 1,
           calls |-> run[p].calls, outcome |-> "running", error |-> "none"] :
             p \in {q \in Procs : run[q].pc = "encrypting"}}

EncryptCalledOn(r, key, value) ==
    \E n \in 1..Len(r.calls) : r.calls[n].key = key /\ r.calls[n].value = value

\* C24: the probe answers 'encrypted' (the variable is skipped) exactly when
\* the value parses as a JSON object with all of salt, iv and cipherText; for
\* every other value it answers 'not encrypted' without raising (an
\* invocation that has read the file fails only in a call of encrypt), and
\* encrypt is called on the value.
ProbeIsTotal ==
    \A r \in Probed :
        /\ \A i \in 1..r.processed :
              LET key == r.targets[i].key
                  value == Trim(r.targets[i].value)
              IN IF ParsesAsEnvelope(value)
                 THEN \A n \in 1..Len(r.calls) : r.calls[n].key # key
                 ELSE EncryptCalledOn(r, key, value)
        /\ (r.outcome = "failed" /\ r.error # ReadFailure) =>
              /\ r.calls # << >>
              /\ r.calls[Len(r.calls)].envelope = Null
              /\ r.calls[Len(r.calls)].key = r.targets[r.processed + 1].key

\* an invocation went past a value in braces that is no JSON, past an object
\* without cipherText and past an envelope
ProbeIsTotalWitness ==
    \E r \in Probed :
        /\ r.outcome = "done"
        /\ \E i, j \in 1..r.processed :
              /\ ParsesAsEnvelope(Trim(r.targets[i].value))
              /\ ~ParsesAsEnvelope(Trim(r.targets[j].value))
              /\ StartsWith(Trim(r.targets[j].value), << Ch("{") >>)
              /\ EncryptCalledOn(r, r.targets[j].key, Trim(r.targets[j].value))

(***************************************************************************)
(* The order of the stages of decrypt (SpecCrypto)                         *)
(***************************************************************************)
\* C25: when decrypt rejects the envelope as malformed, whatever text it was
\* handed, the call has started no key derivation and no AEAD decryption.
ValidatesBeforeUse ==
    (Opened /\ ~svc.res.ok /\ IsMalformedEnvelope(svc.res.error))
    => /\ svc.res.steps = << "parse" >>
       /\ \A k \in 1..Len(svc.res.steps) : svc.res.steps[k] \notin {"derive", "aead"}

\* the text null, which is JSON but no object, was rejected before the key
\* derivation; so was an object with a salt but without an iv
ValidatesBeforeUseWitness ==
    /\ Opened
    /\ ~svc.res.ok
    /\ IsMalformedEnvelope(svc.res.error)
    /\ svc.res.steps = << "parse" >>
    /\ \/ svc.alt.how = "nonobject"
       \/ /\ IsObjectText(svc.text)
          /\ MemberNames(svc.text) = {"salt", "cipherText"}

(***************************************************************************)
(* What a rewrite leaves of the values it encrypted (SpecEnv)              *)
(***************************************************************************)
\* line i of the lines assigns the value to the key, as the tool reads lines
AssignsPlaintext(lines, i, key, value) ==
    LET parsedVariable == ParseEnvironmentLine(lines[i]) IN
    /\ parsedVariable # Null
    /\ parsedVariable.key = key
    /\ parsedVariable.value = value

\* C26: after a successful encryptAndUpdateEnvironmentVariables call, for
\* every variable the call encrypted, no line of the rewritten file still
\* assigns that variable its plaintext value, also when the original line
\* has leading whitespace or spaces around the key.
NoPlaintextLeftBehind ==
    \A e \in Finished :
        e.outcome = "done" =>
            \A n \in 1..Len(e.calls) :
                \A i \in 1..Len(FileLines(e.after)) :
                    ~AssignsPlaintext(FileLines(e.after), i, e.calls[n].key,
                                      e.calls[n].value)

(***************************************************************************)
(* Files that assign a key on several lines (SpecDup)                      *)
(***************************************************************************)
DupLinePool ==
    { Str(<< "A", "=", "1" >>),
      Str(<< "A", "=", "2" >>),
      Str(<< " ", "A", "=", "1" >>),
      Str(<< "B", "=", "1" >>),
      Str(<< "A", "=" >>) \o JsonStringify(StoredEnvelope) }

DupFiles == {Join(ls, NL) : ls \in SeqsUpTo(DupLinePool, MaxDupLines) \ {<< >>}}

DupSelectors == { << >>, << Str(<< "A" >>) >> }

InitDup ==
    /\ entropy = 0
    /\ svc = SvcIdle
    /\ dm = DmIdle
    /\ file \in DupFiles
    /\ selectors \in DupSelectors
    /\ run = [p \in Procs |-> RunIdle]
    /\ runsDone = << >>
    /\ baseFile = BaseAbsent
    /\ store = StoreIdle
    /\ storesDone = << >>
    /\ gen = GenIdle
    /\ handler = HandlerIdle

SpecDup == InitDup /\ [][NextEnv]_vars

AssignedSeveralTimes(lines, k) ==
    Cardinality({i \in 1..Len(lines) : AssignsKey(lines, i, k)}) >= 2

CallsFor(e, k) == {n \in 1..Len(e.calls) : e.calls[n].key = k}

\* C27: when the same key is assigned on several lines of the file, a run
\* that encrypts it calls encrypt once, on the value of the last such line,
\* and replaces every line that begins with `key=` with that one envelope.
DuplicateKeysEncryptedOnce ==
    \A e \in Finished :
        e.outcome = "done" =>
            LET before == FileLines(e.before)
                after == FileLines(e.after)
            IN \A k \in KeysOf(before) :
                  (AssignedSeveralTimes(before, k) /\ CallsFor(e, k) # {})
                  => /\ Cardinality(CallsFor(e, k)) = 1
                     /\ \A n \in CallsFor(e, k) :
                           /\ e.calls[n].value = ValueOf(before, k)
                           /\ \A i \in 1..Len(before) :
                                 StartsWith(before[i], k \o << EQ >>)
                                 => /\ i <= Len(after)
                                    /\ after[i] = k \o << EQ >>
                                          \o JsonStringify(e.calls[n].envelope)

\* a run encrypted the 2 of the last of three lines that assign A, and
\* wrote one envelope on the lines that begin with A=, two at least
DuplicateKeysEncryptedOnceWitness ==
    \E e \in Finished :
        /\ e.outcome = "done"
        /\ LET before == FileLines(e.before)
               after == FileLines(e.after)
               k == Str(<< "A" >>)
           IN /\ Len(before) = 3
              /\ \A i \in 1..3 : AssignsKey(before, i, k)
              /\ before[1] = Str(<< "A", "=", "1" >>)
              /\ before[3] = Str(<< "A", "=", "2" >>)
              /\ Cardinality(CallsFor(e, k)) = 1
              /\ \A n \in CallsFor(e, k) : e.calls[n].value = Str(<< "2" >>)
              /\ after[1] = after[3]
              /\ IsEnvelopeLine(after[1], k)

(***************************************************************************)
(* Overlapping generateAndStoreSecretKey calls on one base file: two       *)
(* workers (fullyParallel), interleaved at every await (SpecStoreOverlap)  *)
(***************************************************************************)
NextStoreOverlap ==
    \E p \in Procs :
        \/ StoreBegin(p)
        \/ StoreRead(p)
        \/ StoreFinish(p)

SpecStoreOverlap == InitKey /\ [][NextStoreOverlap]_vars

\* the calls that wrote the key, in the order of their writes
StoredBy == SelectSeq(storesDone, LAMBDA e : e.outcome = "stored")

\* C28: once a generateAndStoreSecretKey call has written a value for the
\* key name to the base file, no other call for that key name, including one
\* that read the file before that write, changes the key's value in the file.
StoredKeyStableUnderOverlap ==
    StoredBy # << >> =>
        GetKeyValue(baseFile.content, KeyName)
            = [found |-> TRUE, value |-> << Tok(StoredBy[1].secretKey) >>]

(***************************************************************************)
(* What storing a new key does to the base file (SpecKey)                  *)
(***************************************************************************)
\* the lines of a content; a final line break ends the last line and starts
\* no new one
LinesOf(content) ==
    IF content = EmptyText THEN << >>
    ELSE IF EndsWith(content, << NL >>)
    THEN Split(SubSeq(content, 1, Len(content) - 1), NL)
    ELSE Split(content, NL)

\* C29: when storeBaseEnvironmentKey is called for a key name not yet in the
\* file, every line already in the file remains unchanged and in order, and
\* exactly one line keyName=keyValue is added at the end, after a newline
\* separator when the existing content does not end with one.
StoringPreservesBaseFile ==
    \A n \in 1..Len(storesDone) :
        LET e == storesDone[n] IN
        KeyMatches(e.before, KeyName) = {}
        => /\ e.outcome = "stored"
           /\ LinesOf(e.after)
                = LinesOf(e.before) \o << KeyName \o << EQ, Tok(e.secretKey) >> >>
           /\ StartsWith(e.after, e.before)
           /\ ~EndsWith(e.after, << NL >>)

\* a key was stored in a file of two lines whose last line was not ended
StoringPreservesBaseFileWitness ==
    \E n \in 1..Len(storesDone) :
        /\ storesDone[n].outcome = "stored"
        /\ Len(LinesOf(storesDone[n].before)) = 2
        /\ Len(LinesOf(storesDone[n].after)) = 3
        /\ ~EndsWith(storesDone[n].before, << NL >>)

====
